---- MODULE Spec2Model ----
(***************************************************************************)
(* Work queue / thread pool and tile-partitioning scheduler of the sokoban *)
(* game (code/platform.h, code/platform_linux.c, code/platform_win32.c,    *)
(* code/sokoban.c, code/sokoban_render.c).                                 *)
(*                                                                         *)
(* Threads: the main (producer) thread runs render_stationary_tiles_all    *)
(* once per frame; the background threads run linux_thread_procedure /     *)
(* win32_thread_procedure.  Every access to a shared field of the queue is *)
(* one step of the thread that makes it.                                   *)
(***************************************************************************)
EXTENDS Integers, Naturals, Sequences, FiniteSets, TLC

(***************************************************************************)
(* Bounds of the model.                                                    *)
(***************************************************************************)
\* Length of the entries ring explored with background threads (the build
\* has ARRAY_LENGTH_entries slots; the shortened ring puts wrap-around of
\* read_index / write_index within reach of a few frames).
RingLength == 4
\* Most entries render_stationary_tiles_all enqueues per frame on the
\* shortened ring (the build enqueues RENDER_TILE_COUNT_X*RENDER_TILE_COUNT_Y).
MaxBatch == 2
\* Frames the producer runs before it stops.
MaxFrames == 3
\* Most background threads next to a producer that runs the barrier.
MaxWorkers == 1
\* Most background threads of the pool (the build creates up to 7).
MaxThreads == 2
\* Entries a producer that never runs the barrier enqueues before it stops.
MaxEnqueues == 5
\* Largest value of the semaphore (SEM_VALUE_MAX; sem_post beyond it fails
\* with EOVERFLOW and leaves the value alone).
SemValueMax == 2
\* Positions are floats in the code; the model keeps them in fixed point
\* with SubPixel units per pixel.
SubPixel == 2
\* Largest width and height of a buffer handed to immediate_clear or
\* immediate_screen_bitmap.
MaxWidth == 8
MaxHeight == 3
\* Largest width and height of a source bitmap handed to immediate_bitmap
\* (margin included; the tiles of the game are 18 by 18).
MaxSource == 6
\* Largest render_width and render_height of a blit at any size.
MaxRender == 7
\* Side of the destination of the rectangle fills.
MaxRectangle == 3
\* Most entries pushed on the render queues before a flush, and most glyphs
\* of a pushed text.
MaxPushes == 4
\* Most logical processors of the machine.
MaxProcessors == 10
\* Largest width and height of the bitmap of a file.
MaxFile == 2
MaxGlyphs == 2
\* Longest side of the grids whose every level is explored (the build has
\* SCREEN_TILE_COUNT_X by SCREEN_TILE_COUNT_Y tiles).
MaxGrid == 3
\* Calls of move_player made on a level.
MaxCalls == 2
\* Calls of push_undo and pop_undo made on a history of undo states.
MaxUndoCalls == 5
\* Frames of game_update that are played.
MaxGameFrames == 5
\* Buttons that are pressed in the same frame.
MaxPressed == 2
\* Longest time between two frames, in units of seconds_duration of
\* player_movement.
MaxFrameSeconds == 5

(***************************************************************************)
(* Program constants.                                                      *)
(***************************************************************************)
ARRAY_LENGTH_entries == 512
SCREEN_TILE_COUNT_X == 30
SCREEN_TILE_COUNT_Y == 20
SOURCE_BITMAP_DIMENSION_PIXELS == 16
TILE_BITMAP_SCALE == 2
TILE_DIMENSION_PIXELS == SOURCE_BITMAP_DIMENSION_PIXELS * TILE_BITMAP_SCALE
RENDER_TILE_COUNT_X == 6
RENDER_TILE_COUNT_Y == 4
TILES_PER_RENDER_TILE_X == SCREEN_TILE_COUNT_X \div RENDER_TILE_COUNT_X
TILES_PER_RENDER_TILE_Y == SCREEN_TILE_COUNT_Y \div RENDER_TILE_COUNT_Y
\* renderer.h: entries[4098] of struct render_queue, enum render_layer.
ARRAY_LENGTH_render_queue_entries == 4098
RENDER_LAYER_BACKGROUND == 0
RENDER_LAYER_FOREGROUND == 1
RENDER_LAYER_COUNT == 2
\* platform_linux.c line 28 (WIN32_WORKER_THREAD_COUNT, platform_win32.c
\* line 25, is 8 too).
LINUX_WORKER_THREAD_COUNT == 8
\* sokoban.c lines 185-213: sizeof(struct bitmap_header), packed.
sizeof_bitmap_header == 54
\* sokoban.c line 146: struct tile_map_state undos[256].
ARRAY_LENGTH_undos == 256
\* sokoban.c lines 1556-1557: the seconds_duration of the two animation
\* timers, 0.0666666f and 0.333333f, in units of the first.
player_movement_seconds_duration == 1
level_transition_seconds_duration == 5
\* 0x4D42, "BM": the file_type load_bitmap asserts.
BM == 19778

MAXIMUM(a, b) == IF a > b THEN a ELSE b
MINIMUM(a, b) == IF a < b THEN a ELSE b

VARIABLES
  \* struct platform_work_queue
  entries_length,      \* ARRAY_LENGTH(queue->entries)
  entries,             \* slot -> entry stored there
  read_index,
  write_index,
  completion_target,
  completion_count,
  semaphore,
  \* threads
  background_threads,  \* number of threads main() created
  pc,                  \* thread -> position in its code
  local_read_index,    \* thread -> `read_index` local of the dequeue routine
  local_entry,         \* thread -> `entry` local of the dequeue routine
  new_write_index,     \* `new_write_index` local of platform_enqueue_work
  \* render_stationary_tiles_all on the main thread
  frame,               \* frames begun so far
  batch,               \* entries enqueued per frame
  tile_index,          \* entries enqueued in the current frame
  aborted,             \* an assertion failed: the process is gone
  \* history
  published,           \* entries whose slot write_index has moved past
  claimed,             \* entries taken by a compare-and-swap on their slot
  started,             \* entries whose callback has been entered
  rerun,               \* entries whose callback has been entered twice
  finished,            \* entries whose callback has returned
  ran_on_worker,       \* entries whose callback a background thread ran
  stale_claims,        \* a compare-and-swap took a slot holding no new entry
  composited,          \* render tile -> callbacks that drew it since the clear
  \* render_stationary_tiles_all / render_stationary_tiles
  render_tiles,        \* struct render_tile_data render_tiles[], filled so far
  loop_y,              \* `y` of the loop over render tiles
  loop_x,              \* `x` of the loop over render tiles
  renderer,            \* the callback invocation in progress, if any
  \* sokoban_render.c: one call of a rasterizer operation
  destination,         \* struct render_bitmap destination, with its memory
  source,              \* struct render_bitmap source, with its memory
  raster,              \* the operation in progress: arguments and loop position
  \* renderer.h: struct game_renderer, its queues and their flush
  render_queue,        \* layer -> entries[0 .. entry_count - 1]
  flush,               \* position of the flush routine
  push_calls,          \* layer -> entry-appending push calls since the last flush
  pushed,              \* layer -> entries appended since the last flush
  invoked,             \* layer -> rasterizer operations the flush has called
  \* platform_linux.c: main() up to the creation of the threads
  startup,             \* position and locals of main()
  \* platform_load_file and load_bitmap
  load,                \* position, the platform_file and the bitmap returned
  \* sokoban.c: struct game_state and the calls of its operations
  gs,                  \* struct game_state *gs, with the levels it points to
  call                 \* the call in progress: position, arguments, locals

queue_vars == <<entries_length, entries, read_index, write_index,
                completion_target, completion_count, semaphore>>
thread_vars == <<background_threads, pc, local_read_index, local_entry,
                 new_write_index>>
frame_vars == <<frame, batch, tile_index, aborted>>
history_vars == <<published, claimed, started, rerun, finished,
                  ran_on_worker, stale_claims, composited>>
tile_vars == <<render_tiles, loop_y, loop_x, renderer>>
raster_vars == <<destination, source, raster>>
render_queue_vars == <<render_queue, flush, push_calls, pushed, invoked>>
platform_vars == <<startup, load>>
vars == <<queue_vars, thread_vars, frame_vars, history_vars, tile_vars,
          raster_vars, render_queue_vars, platform_vars, gs, call>>

Main == 0
Threads == 0..MaxThreads
Workers == 1..MaxThreads
NoEntry == [frame |-> 0, index |-> 0]
\* The data pointer of an entry: &render_tiles[index] of frame `frame`.
Entry(f, k) == [frame |-> f, index |-> k]


(***************************************************************************)
(* Construction: struct platform_work_queue queue = {0}; sem_init(.., 0);  *)
(* then main() creates the background threads, which start at the top of   *)
(* their loop.  The producer is about to render its first frame.           *)
(***************************************************************************)
InitQueue(length, threads, n) ==
  /\ entries_length = length
  /\ entries = [i \in 0..(length - 1) |-> NoEntry]
  /\ read_index = 0
  /\ write_index = 0
  /\ completion_target = 0
  /\ completion_count = 0
  /\ semaphore = 0
  /\ background_threads = threads
  /\ pc = [t \in Threads |->
             IF t = Main THEN "frame_start"
             ELSE IF t <= threads THEN "dequeue_read" ELSE "not_created"]
  /\ local_read_index = [t \in Threads |-> 0]
  /\ local_entry = [t \in Threads |-> NoEntry]
  /\ new_write_index = 0
  /\ frame = 0
  /\ batch = n
  /\ tile_index = 0
  /\ aborted = FALSE
  /\ published = {}
  /\ claimed = {}
  /\ started = {}
  /\ rerun = {}
  /\ finished = {}
  /\ ran_on_worker = {}
  /\ stale_claims = FALSE
  /\ composited = [k \in 0..(n - 1) |-> 0]

Goto(t, label) == pc' = [pc EXCEPT ![t] = label]

(***************************************************************************)
(* game_update, sokoban.c lines 1671-1756, as far as the queue and the     *)
(* output buffer see it: immediate_clear, then                             *)
(* render_stationary_tiles_all (`batch` calls of platform_enqueue_work and *)
(* the barrier), then the moving sprites, the text and the transition      *)
(* overlay.                                                                *)
(***************************************************************************)
\* lines 1672 and 1675: the clear, and render_stationary_tiles_all entered.
FrameStart ==
  /\ ~aborted
  /\ pc[Main] = "frame_start"
  /\ frame < MaxFrames
  /\ frame' = frame + 1
  /\ tile_index' = 0
  /\ composited' = [k \in DOMAIN composited |-> 0]
  /\ Goto(Main, IF batch = 0 THEN "complete_test" ELSE "enqueue_assert")
  /\ UNCHANGED <<queue_vars, background_threads, local_read_index, local_entry,
                 new_write_index, batch, aborted, published, claimed, started,
                 rerun, finished, ran_on_worker, stale_claims>>
  /\ UNCHANGED <<tile_vars, raster_vars, render_queue_vars, platform_vars, gs, call>>

\* platform_enqueue_work, lines 183-184: the index and the assertion.
EnqueueAssert ==
  /\ ~aborted
  /\ pc[Main] = "enqueue_assert"
  /\ new_write_index' = (write_index + 1) % entries_length
  /\ IF (write_index + 1) % entries_length # read_index
       THEN /\ Goto(Main, "enqueue_write")
            /\ aborted' = FALSE
       ELSE /\ Goto(Main, "assert_failed")
            /\ aborted' = TRUE
  /\ UNCHANGED <<queue_vars, background_threads, local_read_index, local_entry,
                 frame, batch, tile_index, history_vars>>
  /\ UNCHANGED <<tile_vars, raster_vars, render_queue_vars, platform_vars, gs, call>>

\* platform_enqueue_work without its completion_target++.
EnqueueWrite_no_target ==
  /\ ~aborted
  /\ pc[Main] = "enqueue_write"
  /\ entries' = [entries EXCEPT ![write_index] = Entry(frame, tile_index)]
  /\ Goto(Main, "enqueue_publish")
  /\ UNCHANGED <<entries_length, read_index, write_index, completion_target,
                 completion_count, semaphore, background_threads,
                 local_read_index, local_entry, new_write_index, frame_vars,
                 history_vars>>
  /\ UNCHANGED <<tile_vars, raster_vars, render_queue_vars, platform_vars, gs, call>>

\* lines 186-190: the entry's fields and completion_target.
EnqueueWrite ==
  /\ ~aborted
  /\ pc[Main] = "enqueue_write"
  /\ entries' = [entries EXCEPT ![write_index] = Entry(frame, tile_index)]
  /\ completion_target' = completion_target + 1
  /\ Goto(Main, "enqueue_publish")
  /\ UNCHANGED <<entries_length, read_index, write_index, completion_count,
                 semaphore, background_threads, local_read_index, local_entry,
                 new_write_index, frame_vars, history_vars>>
  /\ UNCHANGED <<tile_vars, raster_vars, render_queue_vars, platform_vars, gs, call>>

\* line 194: the new write_index becomes visible.
EnqueuePublish ==
  /\ ~aborted
  /\ pc[Main] = "enqueue_publish"
  /\ write_index' = new_write_index
  /\ published' = published \cup {Entry(frame, tile_index)}
  /\ Goto(Main, "enqueue_post")
  /\ UNCHANGED <<entries_length, entries, read_index, completion_target,
                 completion_count, semaphore, background_threads,
                 local_read_index, local_entry, new_write_index, frame_vars,
                 claimed, started, rerun, finished, ran_on_worker, stale_claims,
                 composited>>
  /\ UNCHANGED <<tile_vars, raster_vars, render_queue_vars, platform_vars, gs, call>>

\* line 195: sem_post, and the loop of render_stationary_tiles_all.
EnqueuePost ==
  /\ ~aborted
  /\ pc[Main] = "enqueue_post"
  /\ semaphore' = IF semaphore < SemValueMax THEN semaphore + 1 ELSE semaphore
  /\ tile_index' = tile_index + 1
  /\ Goto(Main, IF tile_index + 1 < batch THEN "enqueue_assert" ELSE "complete_test")
  /\ UNCHANGED <<entries_length, entries, read_index, write_index,
                 completion_target, completion_count, background_threads,
                 local_read_index, local_entry, new_write_index, frame, batch,
                 aborted, history_vars>>
  /\ UNCHANGED <<tile_vars, raster_vars, render_queue_vars, platform_vars, gs, call>>

(***************************************************************************)
(* linux_dequeue_work / win32_dequeue_work, run by any thread.             *)
(***************************************************************************)
\* line 203: u32 read_index = queue->read_index;
DequeueRead(t) ==
  /\ ~aborted
  /\ pc[t] = "dequeue_read"
  /\ local_read_index' = [local_read_index EXCEPT ![t] = read_index]
  /\ Goto(t, "dequeue_check")
  /\ UNCHANGED <<queue_vars, background_threads, local_entry, new_write_index,
                 frame_vars, history_vars>>
  /\ UNCHANGED <<tile_vars, raster_vars, render_queue_vars, platform_vars, gs, call>>

\* lines 205-208: the empty test; `true` sends a background thread to
\* sem_wait and the producer back to its loop test.
DequeueCheck(t) ==
  /\ ~aborted
  /\ pc[t] = "dequeue_check"
  /\ Goto(t, IF local_read_index[t] = write_index
               THEN (IF t = Main THEN "complete_test" ELSE "sem_wait")
               ELSE "dequeue_cas")
  /\ UNCHANGED <<queue_vars, background_threads, local_read_index, local_entry,
                 new_write_index, frame_vars, history_vars>>
  /\ UNCHANGED <<tile_vars, raster_vars, render_queue_vars, platform_vars, gs, call>>

\* lines 210-211: the compare-and-swap on read_index.
DequeueCas(t) ==
  /\ ~aborted
  /\ pc[t] = "dequeue_cas"
  /\ IF read_index = local_read_index[t]
       THEN /\ read_index' = (local_read_index[t] + 1) % entries_length
            /\ Goto(t, "dequeue_load")
            /\ IF entries[read_index] \in published \ claimed
                 THEN /\ claimed' = claimed \cup {entries[read_index]}
                      /\ UNCHANGED stale_claims
                 ELSE /\ stale_claims' = TRUE
                      /\ UNCHANGED claimed
       ELSE /\ Goto(t, IF t = Main THEN "complete_test" ELSE "dequeue_read")
            /\ UNCHANGED <<read_index, claimed, stale_claims>>
  /\ UNCHANGED <<entries_length, entries, write_index, completion_target,
                 completion_count, semaphore, background_threads,
                 local_read_index, local_entry, new_write_index, frame_vars,
                 published, started, rerun, finished, ran_on_worker,
                 composited>>
  /\ UNCHANGED <<tile_vars, raster_vars, render_queue_vars, platform_vars, gs, call>>

\* lines 213-214: the entry is copied and its callback entered.  A slot
\* never written holds a null callback: calling it ends the process.
DequeueLoad(t) ==
  /\ ~aborted
  /\ pc[t] = "dequeue_load"
  /\ LET entry == entries[local_read_index[t]] IN
       /\ local_entry' = [local_entry EXCEPT ![t] = entry]
       /\ IF entry = NoEntry
            THEN /\ aborted' = TRUE
                 /\ Goto(t, "null_callback")
                 /\ UNCHANGED <<started, rerun, ran_on_worker>>
            ELSE /\ aborted' = FALSE
                 /\ Goto(t, "dequeue_callback")
                 /\ started' = started \cup {entry}
                 /\ rerun' = IF entry \in started THEN rerun \cup {entry} ELSE rerun
                 /\ ran_on_worker' = IF t = Main THEN ran_on_worker
                                     ELSE ran_on_worker \cup {entry}
  /\ UNCHANGED <<queue_vars, background_threads, local_read_index,
                 new_write_index, frame, batch, tile_index, published, claimed,
                 finished, stale_claims, composited>>
  /\ UNCHANGED <<tile_vars, raster_vars, render_queue_vars, platform_vars, gs, call>>

\* line 214: the callback returns, having drawn the render tile its data
\* names (composited tells never, once and more than once apart).
DequeueCallback(t) ==
  /\ ~aborted
  /\ pc[t] = "dequeue_callback"
  /\ finished' = finished \cup {local_entry[t]}
  /\ composited' = [composited EXCEPT ![local_entry[t].index] = MINIMUM(@ + 1, 2)]
  /\ Goto(t, "dequeue_count")
  /\ UNCHANGED <<queue_vars, background_threads, local_read_index, local_entry,
                 new_write_index, frame_vars, published, claimed, started,
                 rerun, ran_on_worker, stale_claims>>
  /\ UNCHANGED <<tile_vars, raster_vars, render_queue_vars, platform_vars, gs, call>>

\* The dequeue routine without its add to completion_count.
DequeueCount_lost(t) ==
  /\ ~aborted
  /\ pc[t] = "dequeue_count"
  /\ Goto(t, IF t = Main THEN "complete_test" ELSE "dequeue_read")
  /\ UNCHANGED <<queue_vars, background_threads, local_read_index, local_entry,
                 new_write_index, frame_vars, history_vars>>
  /\ UNCHANGED <<tile_vars, raster_vars, render_queue_vars, platform_vars, gs, call>>

\* line 216: __sync_add_and_fetch(&queue->completion_count, 1); return(false).
DequeueCount(t) ==
  /\ ~aborted
  /\ pc[t] = "dequeue_count"
  /\ completion_count' = completion_count + 1
  /\ Goto(t, IF t = Main THEN "complete_test" ELSE "dequeue_read")
  /\ UNCHANGED <<entries_length, entries, read_index, write_index,
                 completion_target, semaphore, background_threads,
                 local_read_index, local_entry, new_write_index, frame_vars,
                 history_vars>>
  /\ UNCHANGED <<tile_vars, raster_vars, render_queue_vars, platform_vars, gs, call>>

\* linux_thread_procedure, line 242: sem_wait.
SemWait(t) ==
  /\ ~aborted
  /\ t # Main
  /\ pc[t] = "sem_wait"
  /\ semaphore > 0
  /\ semaphore' = semaphore - 1
  /\ Goto(t, "dequeue_read")
  /\ UNCHANGED <<entries_length, entries, read_index, write_index,
                 completion_target, completion_count, background_threads,
                 local_read_index, local_entry, new_write_index, frame_vars,
                 history_vars>>
  /\ UNCHANGED <<tile_vars, raster_vars, render_queue_vars, platform_vars, gs, call>>

(***************************************************************************)
(* platform_complete_queue.                                                *)
(***************************************************************************)
\* line 224: the loop test.
CompleteTest ==
  /\ ~aborted
  /\ pc[Main] = "complete_test"
  /\ Goto(Main, IF completion_target > completion_count
                  THEN "dequeue_read" ELSE "reset_target")
  /\ UNCHANGED <<queue_vars, background_threads, local_read_index, local_entry,
                 new_write_index, frame_vars, history_vars>>
  /\ UNCHANGED <<tile_vars, raster_vars, render_queue_vars, platform_vars, gs, call>>

\* line 229: queue->completion_target = 0;
ResetTarget ==
  /\ ~aborted
  /\ pc[Main] = "reset_target"
  /\ completion_target' = 0
  /\ Goto(Main, "reset_count")
  /\ UNCHANGED <<entries_length, entries, read_index, write_index,
                 completion_count, semaphore, background_threads,
                 local_read_index, local_entry, new_write_index, frame_vars,
                 history_vars>>
  /\ UNCHANGED <<tile_vars, raster_vars, render_queue_vars, platform_vars, gs, call>>

\* platform_complete_queue without its reset of completion_count.
ResetCount_skipped ==
  /\ ~aborted
  /\ pc[Main] = "reset_count"
  /\ Goto(Main, "draw_sprites")
  /\ UNCHANGED <<queue_vars, background_threads, local_read_index, local_entry,
                 new_write_index, frame_vars, history_vars>>
  /\ UNCHANGED <<tile_vars, raster_vars, render_queue_vars, platform_vars, gs, call>>

\* line 230: queue->completion_count = 0; and the return through
\* render_stationary_tiles_all to game_update.
ResetCount ==
  /\ ~aborted
  /\ pc[Main] = "reset_count"
  /\ completion_count' = 0
  /\ Goto(Main, "draw_sprites")
  /\ UNCHANGED <<entries_length, entries, read_index, write_index,
                 completion_target, semaphore, background_threads,
                 local_read_index, local_entry, new_write_index, frame_vars,
                 history_vars>>
  /\ UNCHANGED <<tile_vars, raster_vars, render_queue_vars, platform_vars, gs, call>>

\* game_update, lines 1678-1735: the moving box and the player.
DrawSprites ==
  /\ ~aborted
  /\ pc[Main] = "draw_sprites"
  /\ Goto(Main, "draw_text")
  /\ UNCHANGED <<queue_vars, background_threads, local_read_index, local_entry,
                 new_write_index, frame_vars, history_vars>>
  /\ UNCHANGED <<tile_vars, raster_vars, render_queue_vars, platform_vars, gs, call>>

\* lines 1738-1749: the three lines of text.
DrawText ==
  /\ ~aborted
  /\ pc[Main] = "draw_text"
  /\ Goto(Main, "draw_screen")
  /\ UNCHANGED <<queue_vars, background_threads, local_read_index, local_entry,
                 new_write_index, frame_vars, history_vars>>
  /\ UNCHANGED <<tile_vars, raster_vars, render_queue_vars, platform_vars, gs, call>>

\* lines 1752-1756: the transition overlay, when one is animating; the
\* frame ends.
DrawScreen ==
  /\ ~aborted
  /\ pc[Main] = "draw_screen"
  /\ Goto(Main, "frame_start")
  /\ UNCHANGED <<queue_vars, background_threads, local_read_index, local_entry,
                 new_write_index, frame_vars, history_vars>>
  /\ UNCHANGED <<tile_vars, raster_vars, render_queue_vars, platform_vars, gs, call>>

Dequeue(t) ==
  \/ DequeueRead(t)
  \/ DequeueCheck(t)
  \/ DequeueCas(t)
  \/ DequeueLoad(t)
  \/ DequeueCallback(t)
  \/ DequeueCount(t)

Producer ==
  \/ FrameStart
  \/ EnqueueAssert
  \/ EnqueueWrite
  \/ EnqueuePublish
  \/ EnqueuePost
  \/ CompleteTest
  \/ ResetTarget
  \/ ResetCount
  \/ DrawSprites
  \/ DrawText
  \/ DrawScreen
  \/ Dequeue(Main)

Worker(t) == Dequeue(t) \/ SemWait(t)

(***************************************************************************)
(* Tile-partitioning scheduler and the tile blit.                          *)
(***************************************************************************)
\* (float)i for an integer i.
Float(i) == i * SubPixel

\* sokoban_math.c: (s32)floorf(value) and (s32)ceilf(value).
floor_s32(value) == value \div SubPixel
ceiling_s32(value) == -((-value) \div SubPixel)

NoRect == [minx |-> 0, miny |-> 0, maxx |-> -1, maxy |-> -1]

\* immediate_bitmap with maxx, maxy taken render_width, render_height past
\* the position instead of render_width - 1, render_height - 1.
immediate_bitmap_bounds_wide(width, height, posx, posy, render_width, render_height) ==
  LET minx == floor_s32(posx)
      miny == floor_s32(posy)
      maxx == ceiling_s32(posx + Float(render_width))
      maxy == ceiling_s32(posy + Float(render_height))
  IN [minx |-> IF minx < 0 THEN 0 ELSE minx,
      miny |-> IF miny < 0 THEN 0 ELSE miny,
      maxx |-> IF maxx >= width THEN width - 1 ELSE maxx,
      maxy |-> IF maxy >= height THEN height - 1 ELSE maxy]

\* immediate_bitmap, lines 155-163: the destination pixels the two loops
\* visit, minx..maxx by miny..maxy.
immediate_bitmap_bounds(width, height, posx, posy, render_width, render_height) ==
  LET minx == floor_s32(posx)
      miny == floor_s32(posy)
      maxx == ceiling_s32(posx + Float(render_width - 1))
      maxy == ceiling_s32(posy + Float(render_height - 1))
  IN [minx |-> IF minx < 0 THEN 0 ELSE minx,
      miny |-> IF miny < 0 THEN 0 ELSE miny,
      maxx |-> IF maxx >= width THEN width - 1 ELSE maxx,
      maxy |-> IF maxy >= height THEN height - 1 ELSE maxy]

\* Two pixel rectangles share a pixel.
SharePixel(a, b) ==
  /\ a.minx <= a.maxx /\ a.miny <= a.maxy
  /\ b.minx <= b.maxx /\ b.miny <= b.maxy
  /\ a.minx <= b.maxx /\ b.minx <= a.maxx
  /\ a.miny <= b.maxy /\ b.miny <= a.maxy

\* render_stationary_tiles, lines 1115-1116 and the blit of one tile.
TilePixels(tilex, tiley) ==
  LET RESOLUTION_BASE_WIDTH == SCREEN_TILE_COUNT_X * TILE_DIMENSION_PIXELS
      RESOLUTION_BASE_HEIGHT == SCREEN_TILE_COUNT_Y * TILE_DIMENSION_PIXELS
      \* immediate_tile_bitmap on the frame's render_output
      \* (RESOLUTION_BASE_WIDTH by RESOLUTION_BASE_HEIGHT, platform_linux.c
      \* line 931).
      immediate_tile_bitmap(posx, posy) ==
        immediate_bitmap_bounds(RESOLUTION_BASE_WIDTH, RESOLUTION_BASE_HEIGHT,
                                posx, posy, TILE_DIMENSION_PIXELS,
                                TILE_DIMENSION_PIXELS)
  IN immediate_tile_bitmap(Float(tilex) * TILE_DIMENSION_PIXELS,
                           Float(tiley) * TILE_DIMENSION_PIXELS)

\* The task of render tile (x, y) with max_tilex one tile too far.
RenderTileData_overlapping(x, y) ==
  LET min_tiley == TILES_PER_RENDER_TILE_Y * y
      min_tilex == TILES_PER_RENDER_TILE_X * x
  IN [min_tilex |-> min_tilex,
      min_tiley |-> min_tiley,
      max_tilex |-> MINIMUM(min_tilex + TILES_PER_RENDER_TILE_X, SCREEN_TILE_COUNT_X - 1),
      max_tiley |-> MINIMUM(min_tiley + TILES_PER_RENDER_TILE_Y - 1, SCREEN_TILE_COUNT_Y - 1)]

\* render_stationary_tiles_all, lines 1208-1224: the task of render tile
\* (x, y).
RenderTileData(x, y) ==
  LET min_tiley == TILES_PER_RENDER_TILE_Y * y
      min_tilex == TILES_PER_RENDER_TILE_X * x
  IN [min_tilex |-> min_tilex,
      min_tiley |-> min_tiley,
      max_tilex |-> MINIMUM(min_tilex + TILES_PER_RENDER_TILE_X - 1, SCREEN_TILE_COUNT_X - 1),
      max_tiley |-> MINIMUM(min_tiley + TILES_PER_RENDER_TILE_Y - 1, SCREEN_TILE_COUNT_Y - 1)]

Idle == [task |-> 0, tilex |-> 0, tiley |-> 0, wrote |-> NoRect]

\* No rasterizer operation has been called.
NoBitmap == [width |-> 0, height |-> 0, memory |-> <<>>]

InitRaster ==
  /\ destination = NoBitmap
  /\ source = NoBitmap
  /\ raster = [op |-> "none"]

InitTiles ==
  /\ render_tiles = <<>>
  /\ loop_y = 0
  /\ loop_x = 0
  /\ renderer = Idle

\* render_stationary_tiles_all, lines 1182-1183 and 1206-1227: one pass of
\* the inner loop fills render_tiles[tile_index++] and enqueues it.
BuildRenderTile ==
  /\ ~aborted
  /\ loop_y < RENDER_TILE_COUNT_Y
  /\ IF /\ (SCREEN_TILE_COUNT_X % RENDER_TILE_COUNT_X) = 0
        /\ (SCREEN_TILE_COUNT_Y % RENDER_TILE_COUNT_Y) = 0
        /\ Len(render_tiles) < RENDER_TILE_COUNT_X * RENDER_TILE_COUNT_Y
       THEN /\ render_tiles' = Append(render_tiles, RenderTileData(loop_x, loop_y))
            /\ loop_x' = IF loop_x + 1 < RENDER_TILE_COUNT_X THEN loop_x + 1 ELSE 0
            /\ loop_y' = IF loop_x + 1 < RENDER_TILE_COUNT_X THEN loop_y ELSE loop_y + 1
            /\ UNCHANGED aborted
       ELSE /\ aborted' = TRUE
            /\ UNCHANGED <<render_tiles, loop_x, loop_y>>
  /\ UNCHANGED <<queue_vars, thread_vars, frame, batch, tile_index,
                 history_vars, renderer, raster_vars,
                 render_queue_vars, platform_vars, gs, call>>

\* render_stationary_tiles_callback entered for an enqueued task.
RenderBegin(k) ==
  /\ ~aborted
  /\ renderer.task = 0
  /\ k \in 1..Len(render_tiles)
  /\ renderer' = [task |-> k,
                  tilex |-> render_tiles[k].min_tilex,
                  tiley |-> render_tiles[k].min_tiley,
                  wrote |-> NoRect]
  /\ UNCHANGED <<queue_vars, thread_vars, frame_vars, history_vars,
                 render_tiles, loop_y, loop_x, raster_vars,
                 render_queue_vars, platform_vars, gs, call>>

\* render_stationary_tiles, lines 1111-1167: one pass of the inner loop,
\* for a tile of any type.
RenderTile ==
  /\ ~aborted
  /\ renderer.task # 0
  /\ renderer.tiley <= render_tiles[renderer.task].max_tiley
  /\ \E type \in {"FLOOR", "PLAYER", "PLAYER_ON_GOAL", "BOX", "BOX_ON_GOAL",
                  "WALL", "GOAL"},
        moving \in BOOLEAN :
       LET data == render_tiles[renderer.task]
           last == renderer.tilex + 1 > data.max_tilex
           \* lines 1128-1165: whether the switch blits.
           DrawsTile(tile, is_moving) ==
             CASE tile = "BOX" -> ~is_moving
               [] tile = "BOX_ON_GOAL" -> TRUE
               [] tile = "WALL" -> TRUE
               [] tile = "GOAL" -> TRUE
               [] tile = "PLAYER_ON_GOAL" -> TRUE
               [] OTHER -> FALSE
       IN renderer' = [task |-> renderer.task,
                       tilex |-> IF last THEN data.min_tilex ELSE renderer.tilex + 1,
                       tiley |-> IF last THEN renderer.tiley + 1 ELSE renderer.tiley,
                       wrote |-> IF DrawsTile(type, moving)
                                   THEN TilePixels(renderer.tilex, renderer.tiley)
                                   ELSE NoRect]
  /\ UNCHANGED <<queue_vars, thread_vars, frame_vars, history_vars,
                 render_tiles, loop_y, loop_x, raster_vars,
                 render_queue_vars, platform_vars, gs, call>>

\* render_stationary_tiles returns.
RenderEnd ==
  /\ ~aborted
  /\ renderer.task # 0
  /\ renderer.tiley > render_tiles[renderer.task].max_tiley
  /\ renderer' = Idle
  /\ UNCHANGED <<queue_vars, thread_vars, frame_vars, history_vars,
                 render_tiles, loop_y, loop_x, raster_vars,
                 render_queue_vars, platform_vars, gs, call>>

(***************************************************************************)
(* Rasterizer operations of sokoban_render.c (renderer_software.c holds    *)
(* the same code as software_clear, software_screen and software_bitmap).  *)
(* A u32 colour 0xAARRGGBB is kept as its four bytes.                      *)
(***************************************************************************)
Pixel(a, r, g, b) == [a |-> a, r |-> r, g |-> g, b |-> b]

\* 0x00000000, 0x00FFFFFF, 0xFF222034 (the clear colour of game_update),
\* 0x80402010, 0xFFFFFFFF, 0x40100804.
PixelSamples ==
  <<Pixel(0, 0, 0, 0), Pixel(0, 255, 255, 255), Pixel(255, 34, 32, 52),
    Pixel(128, 64, 32, 16), Pixel(255, 255, 255, 255), Pixel(64, 16, 8, 4)>>

\* The memory of a width by height bitmap: pixel i is sample seed + i * step.
BitmapMemory(width, height, seed, step) ==
  [i \in 0..(width * height - 1) |->
     PixelSamples[((seed + i * step) % Len(PixelSamples)) + 1]]

\* The raster record of a call in its loops.
InLoop(op) == raster.op = op /\ raster.at = "loop"
Returned(op) == raster.op = op /\ raster.at = "done"

(***************************************************************************)
(* immediate_clear.                                                        *)
(***************************************************************************)
\* line 17 with the row stride taken from the height.
clear_row_by_height(y, width, height) == y * height

\* line 17: u32 *row = destination.memory + (y * destination.width);
clear_row(y, width, height) == y * width

\* line 14: assert((destination.width % 4) == 0);
ClearAssert ==
  /\ ~aborted
  /\ raster.op = "clear"
  /\ raster.at = "assert"
  /\ IF destination.width % 4 = 0
       THEN /\ raster' = [raster EXCEPT !.at = "loop"]
            /\ UNCHANGED aborted
       ELSE /\ raster' = [raster EXCEPT !.at = "assert_failed"]
            /\ aborted' = TRUE
  /\ UNCHANGED <<queue_vars, thread_vars, frame, batch, tile_index,
                 history_vars, tile_vars, destination, source, render_queue_vars, platform_vars, gs, call>>

\* line 21: one u32_4x_storeu of four pixels at row + x, and x += 4.  A
\* pixel past the width * height pixels of the bitmap is noted in stray.
ClearStore ==
  /\ ~aborted
  /\ InLoop("clear")
  /\ raster.y < destination.height
  /\ raster.x < destination.width
  /\ LET first == clear_row(raster.y, destination.width, destination.height) + raster.x
         lanes == first..(first + 3)
     IN /\ destination' =
             [destination EXCEPT !.memory =
                [i \in DOMAIN destination.memory |->
                   IF i \in lanes THEN raster.color ELSE destination.memory[i]]]
        /\ raster' = [raster EXCEPT !.x = raster.x + 4,
                                    !.stray = raster.stray \cup
                                              (lanes \ DOMAIN destination.memory)]
  /\ UNCHANGED <<queue_vars, thread_vars, frame_vars, history_vars, tile_vars,
                 source, render_queue_vars, platform_vars, gs, call>>

\* lines 15 and 18: the inner loop ends, ++y.
ClearNextRow ==
  /\ ~aborted
  /\ InLoop("clear")
  /\ raster.y < destination.height
  /\ raster.x >= destination.width
  /\ raster' = [raster EXCEPT !.y = raster.y + 1, !.x = 0]
  /\ UNCHANGED <<queue_vars, thread_vars, frame_vars, history_vars, tile_vars,
                 destination, source, render_queue_vars, platform_vars, gs, call>>

\* line 15: the outer loop ends and immediate_clear returns.
ClearReturn ==
  /\ ~aborted
  /\ InLoop("clear")
  /\ raster.y >= destination.height
  /\ raster' = [raster EXCEPT !.at = "done"]
  /\ UNCHANGED <<queue_vars, thread_vars, frame_vars, history_vars, tile_vars,
                 destination, source, render_queue_vars, platform_vars, gs, call>>

(***************************************************************************)
(* immediate_screen_bitmap.  alpha_modulation is 0 or 1 here (0.0f and     *)
(* 1.0f).  The floats of one lane are kept as exact fractions over 255;    *)
(* for these two modulations every value the code converts back to an      *)
(* integer lies at least 1/510 from a rounding tie, far more than the      *)
(* error of the single-precision operations, so the conversion of the      *)
(* exact fraction is the conversion of the float.                          *)
(***************************************************************************)
\* u32_4x_or on two bytes.
RECURSIVE u32_4x_or(_, _)
u32_4x_or(a, b) ==
  IF a = 0 THEN b
  ELSE IF b = 0 THEN a
  ELSE 2 * u32_4x_or(a \div 2, b \div 2) + (IF a % 2 = 1 \/ b % 2 = 1 THEN 1 ELSE 0)

\* u32_4x_convert_f32_4x (_mm_cvtps_epi32) of the float num / den, not
\* negative: round to nearest, ties to even.
u32_4x_convert_f32_4x(num, den) ==
  LET q == num \div den
      r == num % den
  IN IF 2 * r > den \/ (2 * r = den /\ q % 2 = 1) THEN q + 1 ELSE q

\* lines 131-137: the four channels shifted into place in a 32-bit lane and
\* or-ed together; what a channel has above its eight bits lands in the
\* byte above it, or falls off the lane.
u32_4x_color(r, g, b, a) ==
  Pixel(u32_4x_or(a % 256, (r \div 256) % 256),
        u32_4x_or(r % 256, (g \div 256) % 256),
        u32_4x_or(g % 256, (b \div 256) % 256),
        b % 256)

\* One lane with the red channel blended from the source's green.
screen_color_green_for_red(destination_color, source_color, alpha_modulation) ==
  LET inverse_source_anormal == 255 - alpha_modulation * source_color.a
      source_g == 255 * alpha_modulation * source_color.g
      source_b == 255 * alpha_modulation * source_color.b
      r == inverse_source_anormal * destination_color.r + source_g
      g == inverse_source_anormal * destination_color.g + source_g
      b == inverse_source_anormal * destination_color.b + source_b
      a == alpha_modulation * source_color.a * (destination_color.a + 2 * 255)
  IN u32_4x_color(u32_4x_convert_f32_4x(r, 255), u32_4x_convert_f32_4x(g, 255),
                  u32_4x_convert_f32_4x(b, 255), u32_4x_convert_f32_4x(a, 255))

\* lines 99-137 for one lane (every value times 255):
\*   source_r = source_r * alpha_modulation
\*   source_anormal = (alpha_modulation / 255) * source_a
\*   r = (1 - source_anormal) * destination_r + source_r
\*   a = (source_anormal * destination_anormal + 2 * source_anormal) * 255
screen_color(destination_color, source_color, alpha_modulation) ==
  LET inverse_source_anormal == 255 - alpha_modulation * source_color.a
      source_r == 255 * alpha_modulation * source_color.r
      source_g == 255 * alpha_modulation * source_color.g
      source_b == 255 * alpha_modulation * source_color.b
      r == inverse_source_anormal * destination_color.r + source_r
      g == inverse_source_anormal * destination_color.g + source_g
      b == inverse_source_anormal * destination_color.b + source_b
      a == alpha_modulation * source_color.a * (destination_color.a + 2 * 255)
  IN u32_4x_color(u32_4x_convert_f32_4x(r, 255), u32_4x_convert_f32_4x(g, 255),
                  u32_4x_convert_f32_4x(b, 255), u32_4x_convert_f32_4x(a, 255))

\* lines 122-134: the alpha value of one lane as converted to an integer,
\*   a = (source_anormal * destination_anormal + 2 * source_anormal) * 255
screen_alpha(destination_color, source_color, alpha_modulation) ==
  u32_4x_convert_f32_4x(
    alpha_modulation * source_color.a * (destination_color.a + 2 * 255), 255)

\* lines 72-73: the two assertions on the dimensions.
ScreenAssert ==
  /\ ~aborted
  /\ raster.op = "screen"
  /\ raster.at = "assert"
  /\ IF destination.width = source.width /\ destination.height = source.height
       THEN /\ raster' = [raster EXCEPT !.at = "loop"]
            /\ UNCHANGED aborted
       ELSE /\ raster' = [raster EXCEPT !.at = "assert_failed"]
            /\ aborted' = TRUE
  /\ UNCHANGED <<queue_vars, thread_vars, frame, batch, tile_index,
                 history_vars, tile_vars, destination, source, render_queue_vars, platform_vars, gs, call>>

\* lines 90-139: one pass of the inner loop, four pixels of both rows.
ScreenStore ==
  /\ ~aborted
  /\ InLoop("screen")
  /\ raster.y < destination.height
  /\ raster.x < destination.width
  /\ LET first == raster.y * destination.width + raster.x
         lanes == first..(first + 3)
     IN /\ destination' =
             [destination EXCEPT !.memory =
                [i \in DOMAIN destination.memory |->
                   IF i \in lanes
                     THEN screen_color(destination.memory[i], source.memory[i],
                                       raster.alpha_modulation)
                     ELSE destination.memory[i]]]
        /\ raster' = [raster EXCEPT !.x = raster.x + 4,
                                    !.stray = raster.stray \cup
                                              (lanes \ DOMAIN destination.memory)]
  /\ UNCHANGED <<queue_vars, thread_vars, frame_vars, history_vars, tile_vars,
                 source, render_queue_vars, platform_vars, gs, call>>

\* lines 85 and 90: the inner loop ends, ++y.
ScreenNextRow ==
  /\ ~aborted
  /\ InLoop("screen")
  /\ raster.y < destination.height
  /\ raster.x >= destination.width
  /\ raster' = [raster EXCEPT !.y = raster.y + 1, !.x = 0]
  /\ UNCHANGED <<queue_vars, thread_vars, frame_vars, history_vars, tile_vars,
                 destination, source, render_queue_vars, platform_vars, gs, call>>

\* line 85: the outer loop ends and immediate_screen_bitmap returns.
ScreenReturn ==
  /\ ~aborted
  /\ InLoop("screen")
  /\ raster.y >= destination.height
  /\ raster' = [raster EXCEPT !.at = "done"]
  /\ UNCHANGED <<queue_vars, thread_vars, frame_vars, history_vars, tile_vars,
                 destination, source, render_queue_vars, platform_vars, gs, call>>

(***************************************************************************)
(* immediate_bitmap, lines 155-194: the destination pixels visited and the *)
(* source texel read for each.  Positions are in SubPixel units.  u and v  *)
(* are kept as exact fractions; at the scales used here (1 and             *)
(* TILE_BITMAP_SCALE) the value truncated on lines 188-189 lies at least   *)
(* 1 / (2 * (render_width - 1)) from an integer, so truncating the exact   *)
(* value is truncating the float; at other sizes it can be an integer.     *)
(***************************************************************************)
\* lines 176-188 without the clamp of u to 1 on line 180.
source_coordinate_unclamped(x, render_width, source_width) ==
  LET den == IF render_width - 1 = 0 THEN 1 ELSE render_width - 1
  IN {1 + ((2 * x * (source_width - 3) + den) \div (2 * den))}

\* lines 176-188 (and 177-189): the values sourcex can take for offset x.
\* With render_width = 1 and x = 0 the code computes u = 0.0f / 0.0f, a NaN
\* that passes both clamps; its conversion to u32 is undefined: builds give
\* 0 (cvttss2si, fcvtzu) or 0xFFFFFFFF (vcvttss2usi), so 1 + it is 1 or 0.
\* With render_width = 1 and x > 0 u is +infinity, clamped to 1.
\* Where u * (source_width - 3) + 0.5 is a whole number k and u itself is
\* not a binary fraction, the rounding of the division and of the product
\* decides between k and k - 1 (either is seen in builds of the source).
source_coordinate(x, render_width, source_width) ==
  IF render_width - 1 = 0 /\ x = 0
    THEN {1, 0}
    ELSE LET den == IF render_width - 1 = 0 THEN 1 ELSE render_width - 1
             num == IF render_width - 1 = 0 THEN 1 ELSE MINIMUM(x, den)
             twice == 2 * num * (source_width - 3) + den
             k == twice \div (2 * den)
         IN IF twice % (2 * den) = 0 /\ (16777216 * num) % den # 0
              THEN {1 + k, k}
              ELSE {1 + k}

NoSample == [destinationx |-> -1, destinationy |-> -1, sourcex |-> -1, sourcey |-> -1]

\* lines 155-165: the clipped bounds, and the loops entered.
BitmapBounds ==
  /\ ~aborted
  /\ raster.op = "bitmap"
  /\ raster.at = "bounds"
  /\ LET bounds == immediate_bitmap_bounds(destination.width, destination.height,
                                           raster.posx, raster.posy,
                                           raster.render_width, raster.render_height)
     IN raster' = [raster EXCEPT !.at = "loop", !.bounds = bounds,
                                 !.destinationx = bounds.minx,
                                 !.destinationy = bounds.miny]
  /\ UNCHANGED <<queue_vars, thread_vars, frame_vars, history_vars, tile_vars,
                 destination, source, render_queue_vars, platform_vars, gs, call>>

\* lines 208-213 with the destination kept in full under the source, the
\* factor (1.0f - sanormal) left out.
bitmap_channels_additive(destination_color, source_color) ==
  [r |-> destination_color.r + source_color.r,
   g |-> destination_color.g + source_color.g,
   b |-> destination_color.b + source_color.b,
   a |-> destination_color.a + source_color.a]

\* lines 194-218: the four channel values (u32)(c + 0.5f) of one pixel, with
\*   sanormal = sa / 255.0f
\*   c = ((1.0f - sanormal) * dc) + sc
\* The exact value of c + 0.5 is never closer than 1/510 to an integer, so
\* its truncation is the truncation of the float.
bitmap_channels(destination_color, source_color) ==
  LET blend(dc, sc) == (2 * ((255 - source_color.a) * dc + 255 * sc) + 255) \div (2 * 255)
  IN [r |-> blend(destination_color.r, source_color.r),
      g |-> blend(destination_color.g, source_color.g),
      b |-> blend(destination_color.b, source_color.b),
      a |-> blend(destination_color.a, source_color.a)]

\* lines 167-220: one pass of the inner loop: the texel is read and
\* composited onto the destination pixel; an assertion of lines 191-192
\* that fails ends the process.
BitmapPixel ==
  /\ ~aborted
  /\ InLoop("bitmap")
  /\ raster.destinationy <= raster.bounds.maxy
  /\ raster.destinationx <= raster.bounds.maxx
  /\ LET x == raster.destinationx - raster.bounds.minx
         y == raster.destinationy - raster.bounds.miny
         pixel == raster.destinationy * destination.width + raster.destinationx
         \* lines 215-218: the channels shifted into place and or-ed together.
         bitmap_color(destination_color, source_color) ==
           LET c == bitmap_channels(destination_color, source_color)
           IN u32_4x_color(c.r, c.g, c.b, c.a)
     IN \E sourcex \in source_coordinate(x, raster.render_width, source.width),
           sourcey \in source_coordinate(y, raster.render_height, source.height) :
          IF /\ sourcex >= 0 /\ sourcex < source.width
             /\ sourcey >= 0 /\ sourcey < source.height
            THEN /\ raster' = [raster EXCEPT
                                 !.sample = [destinationx |-> raster.destinationx,
                                             destinationy |-> raster.destinationy,
                                             sourcex |-> sourcex,
                                             sourcey |-> sourcey],
                                 !.count = raster.count + 1,
                                 !.destinationx = raster.destinationx + 1]
                 /\ destination' =
                      [destination EXCEPT !.memory[pixel] =
                         bitmap_color(destination.memory[pixel],
                                      source.memory[sourcey * source.width + sourcex])]
                 /\ UNCHANGED aborted
            ELSE /\ raster' = [raster EXCEPT !.at = "assert_failed"]
                 /\ aborted' = TRUE
                 /\ UNCHANGED destination
  /\ UNCHANGED <<queue_vars, thread_vars, frame, batch, tile_index,
                 history_vars, tile_vars, source, render_queue_vars, platform_vars, gs, call>>

\* lines 165 and 167: the inner loop ends, ++destinationy.
BitmapNextRow ==
  /\ ~aborted
  /\ InLoop("bitmap")
  /\ raster.destinationy <= raster.bounds.maxy
  /\ raster.destinationx > raster.bounds.maxx
  /\ raster' = [raster EXCEPT !.destinationy = raster.destinationy + 1,
                              !.destinationx = raster.bounds.minx]
  /\ UNCHANGED <<queue_vars, thread_vars, frame_vars, history_vars, tile_vars,
                 destination, source, render_queue_vars, platform_vars, gs, call>>

\* line 165: the outer loop ends and immediate_bitmap returns.
BitmapReturn ==
  /\ ~aborted
  /\ InLoop("bitmap")
  /\ raster.destinationy > raster.bounds.maxy
  /\ raster' = [raster EXCEPT !.at = "done"]
  /\ UNCHANGED <<queue_vars, thread_vars, frame_vars, history_vars, tile_vars,
                 destination, source, render_queue_vars, platform_vars, gs, call>>

(***************************************************************************)
(* immediate_rectangle (software_rectangle holds the same code).  The      *)
(* corners are in SubPixel units.                                          *)
(***************************************************************************)
\* (s32)value for a float within the range of s32: the fraction is dropped,
\* towards zero.
s32_cast(value) ==
  IF value >= 0 THEN value \div SubPixel ELSE -((-value) \div SubPixel)

\* lines 30-33 with maxx and maxy one short of the truncated corner.
immediate_rectangle_bounds_exclusive(width, height, minx, miny, maxx, maxy) ==
  [minx |-> MAXIMUM(0, s32_cast(minx)),
   miny |-> MAXIMUM(0, s32_cast(miny)),
   maxx |-> MINIMUM(s32_cast(maxx) - 1, width - 1),
   maxy |-> MINIMUM(s32_cast(maxy) - 1, height - 1)]

\* lines 30-33: the pixel bounds of the fill.
immediate_rectangle_bounds(width, height, minx, miny, maxx, maxy) ==
  [minx |-> MAXIMUM(0, s32_cast(minx)),
   miny |-> MAXIMUM(0, s32_cast(miny)),
   maxx |-> MINIMUM(s32_cast(maxx), width - 1),
   maxy |-> MINIMUM(s32_cast(maxy), height - 1)]

\* lines 30-35: the bounds are computed and the loops entered.
RectangleBounds ==
  /\ ~aborted
  /\ raster.op = "rectangle"
  /\ raster.at = "bounds"
  /\ LET bounds == immediate_rectangle_bounds(destination.width, destination.height,
                                              raster.min.x, raster.min.y,
                                              raster.max.x, raster.max.y)
     IN raster' = [raster EXCEPT !.at = "loop", !.bounds = bounds,
                                 !.y = bounds.miny, !.x = bounds.minx]
  /\ UNCHANGED <<queue_vars, thread_vars, frame_vars, history_vars, tile_vars,
                 destination, source, render_queue_vars, platform_vars, gs, call>>

\* line 39: destination.memory[(y * destination.width) + x] = color, ++x.
RectangleStore ==
  /\ ~aborted
  /\ InLoop("rectangle")
  /\ raster.y <= raster.bounds.maxy
  /\ raster.x <= raster.bounds.maxx
  /\ LET index == raster.y * destination.width + raster.x
     IN /\ destination' =
             [destination EXCEPT !.memory =
                [i \in DOMAIN destination.memory |->
                   IF i = index THEN raster.color ELSE destination.memory[i]]]
        /\ raster' = [raster EXCEPT !.x = raster.x + 1,
                                    !.stray = raster.stray \cup
                                              ({index} \ DOMAIN destination.memory)]
  /\ UNCHANGED <<queue_vars, thread_vars, frame_vars, history_vars, tile_vars,
                 source, render_queue_vars, platform_vars, gs, call>>

\* lines 35 and 37: the inner loop ends, ++y.
RectangleNextRow ==
  /\ ~aborted
  /\ InLoop("rectangle")
  /\ raster.y <= raster.bounds.maxy
  /\ raster.x > raster.bounds.maxx
  /\ raster' = [raster EXCEPT !.y = raster.y + 1, !.x = raster.bounds.minx]
  /\ UNCHANGED <<queue_vars, thread_vars, frame_vars, history_vars, tile_vars,
                 destination, source, render_queue_vars, platform_vars, gs, call>>

\* line 35: the outer loop ends and immediate_rectangle returns.
RectangleReturn ==
  /\ ~aborted
  /\ InLoop("rectangle")
  /\ raster.y > raster.bounds.maxy
  /\ raster' = [raster EXCEPT !.at = "done"]
  /\ UNCHANGED <<queue_vars, thread_vars, frame_vars, history_vars, tile_vars,
                 destination, source, render_queue_vars, platform_vars, gs, call>>

(***************************************************************************)
(* The render queues of struct game_renderer (renderer.h): one queue of    *)
(* entries per layer, filled by the push routines and emptied by the flush *)
(* routine.  renderer.h declares the structures; the routines are taken    *)
(* from section 4.3 of the specification.  An entry is kept as its type    *)
(* and a number that stands for the arguments of the push that made it.    *)
(***************************************************************************)
RenderLayers == 0..(RENDER_LAYER_COUNT - 1)



InitRenderQueue ==
  /\ render_queue = [layer \in RenderLayers |-> <<>>]
  /\ flush = [at |-> "idle", layer |-> 0, index |-> 0]
  /\ push_calls = [layer \in RenderLayers |-> 0]
  /\ pushed = [layer \in RenderLayers |-> <<>>]
  /\ invoked = [layer \in RenderLayers |-> <<>>]

\* The entries count calls of push_clear, push_rectangle, push_bitmap or
\* push_screen append to the queue of a layer, each call asserting that the
\* queue has room; the first push after a flush starts the histories anew.
Push(layer, types) ==
  /\ ~aborted
  /\ flush.at \in {"idle", "done"}
  /\ (IF flush.at = "done"
        THEN 0
        ELSE push_calls[RENDER_LAYER_BACKGROUND]
               + push_calls[RENDER_LAYER_FOREGROUND]) + Len(types) <= MaxPushes
  /\ LET fresh == flush.at = "done"
         calls == IF fresh THEN [l \in RenderLayers |-> 0] ELSE push_calls
         before == IF fresh THEN [l \in RenderLayers |-> <<>>] ELSE pushed
         first == IF fresh
                    THEN 1
                    ELSE 1 + Len(pushed[RENDER_LAYER_BACKGROUND])
                           + Len(pushed[RENDER_LAYER_FOREGROUND])
         new == [i \in 1..Len(types) |-> [type |-> types[i], argument |-> first + i - 1]]
     IN IF Len(render_queue[layer]) + Len(types) <= ARRAY_LENGTH_render_queue_entries
          THEN /\ render_queue' = [render_queue EXCEPT ![layer] = @ \o new]
               /\ push_calls' = [calls EXCEPT ![layer] = @ + Len(types)]
               /\ pushed' = [before EXCEPT ![layer] = @ \o new]
               /\ invoked' = IF fresh THEN [l \in RenderLayers |-> <<>>] ELSE invoked
               /\ flush' = [at |-> "idle", layer |-> 0, index |-> 0]
               /\ UNCHANGED aborted
          ELSE /\ aborted' = TRUE
               /\ UNCHANGED render_queue_vars
  /\ UNCHANGED <<queue_vars, thread_vars, frame, batch, tile_index,
                 history_vars, tile_vars, raster_vars, platform_vars, gs, call>>

PushClear(layer) == Push(layer, <<"CLEAR">>)

PushRectangle(layer) == Push(layer, <<"RECTANGLE">>)

\* push_outline: four calls of push_rectangle (top, bottom, left, right).
PushOutline(layer) == Push(layer, <<"RECTANGLE", "RECTANGLE", "RECTANGLE", "RECTANGLE">>)

PushBitmap(layer) == Push(layer, <<"BITMAP">>)

\* push_tile: push_bitmap of a tile-sized bitmap.
PushTile(layer) == Push(layer, <<"BITMAP">>)

PushScreen(layer) == Push(layer, <<"SCREEN">>)

\* push_text: one call of push_bitmap per glyph of the formatted string.
PushText(layer, glyphs) == Push(layer, [i \in 1..glyphs |-> "BITMAP"])

\* flush is called: the first layer is RENDER_LAYER_BACKGROUND.
FlushBegin ==
  /\ ~aborted
  /\ flush.at = "idle"
  /\ flush' = [at |-> "layer", layer |-> RENDER_LAYER_BACKGROUND, index |-> 0]
  /\ UNCHANGED <<render_queue, push_calls, pushed, invoked>>
  /\ UNCHANGED <<queue_vars, thread_vars, frame_vars, history_vars, tile_vars,
                 raster_vars, platform_vars, gs, call>>

\* The rasterizer operation an entry is dispatched to.
FlushDispatch(entry) ==
  [operation |-> CASE entry.type = "CLEAR" -> "clear"
                   [] entry.type = "RECTANGLE" -> "rectangle"
                   [] entry.type = "BITMAP" -> "bitmap"
                   [] entry.type = "SCREEN" -> "screen",
   argument |-> entry.argument]

\* flush: entry flush.index of the layer is dispatched to its operation.
FlushEntry ==
  /\ ~aborted
  /\ flush.at = "layer"
  /\ flush.index < Len(render_queue[flush.layer])
  /\ invoked' = [invoked EXCEPT ![flush.layer] =
                   Append(@, FlushDispatch(render_queue[flush.layer][flush.index + 1]))]
  /\ flush' = [flush EXCEPT !.index = flush.index + 1]
  /\ UNCHANGED <<render_queue, push_calls, pushed>>
  /\ UNCHANGED <<queue_vars, thread_vars, frame_vars, history_vars, tile_vars,
                 raster_vars, platform_vars, gs, call>>

\* flush leaving the entries of the layer in the queue.
FlushLayerEnd_kept ==
  /\ ~aborted
  /\ flush.at = "layer"
  /\ flush.index >= Len(render_queue[flush.layer])
  /\ flush' = IF flush.layer + 1 < RENDER_LAYER_COUNT
                THEN [at |-> "layer", layer |-> flush.layer + 1, index |-> 0]
                ELSE [at |-> "done", layer |-> 0, index |-> 0]
  /\ UNCHANGED <<render_queue, push_calls, pushed, invoked>>
  /\ UNCHANGED <<queue_vars, thread_vars, frame_vars, history_vars, tile_vars,
                 raster_vars, platform_vars, gs, call>>

\* flush: the entries of the layer are done, its entry_count is reset to 0
\* and the next layer follows; after the last layer flush returns.
FlushLayerEnd ==
  /\ ~aborted
  /\ flush.at = "layer"
  /\ flush.index >= Len(render_queue[flush.layer])
  /\ render_queue' = [render_queue EXCEPT ![flush.layer] = <<>>]
  /\ flush' = IF flush.layer + 1 < RENDER_LAYER_COUNT
                THEN [at |-> "layer", layer |-> flush.layer + 1, index |-> 0]
                ELSE [at |-> "done", layer |-> 0, index |-> 0]
  /\ UNCHANGED <<push_calls, pushed, invoked>>
  /\ UNCHANGED <<queue_vars, thread_vars, frame_vars, history_vars, tile_vars,
                 raster_vars, platform_vars, gs, call>>

(***************************************************************************)
(* platform_load_file (platform_linux.c) and load_bitmap (sokoban.c).  The *)
(* file on disk is kept as the fields of its header that load_bitmap reads *)
(* and its pixels in file order, the bottom row first.                     *)
(***************************************************************************)



\* lines 123-128: stat.
LoadFileStat ==
  /\ load.at = "stat"
  /\ \E fails \in BOOLEAN :
       load' = IF fails THEN [load EXCEPT !.at = "returned", !.failure = "stat"]
                        ELSE [load EXCEPT !.at = "open"]
  /\ UNCHANGED <<queue_vars, thread_vars, frame_vars, history_vars, tile_vars,
                 raster_vars, render_queue_vars, startup,
                 gs, call>>

\* lines 130-135: open.
LoadFileOpen ==
  /\ load.at = "open"
  /\ \E fails \in BOOLEAN :
       load' = IF fails THEN [load EXCEPT !.at = "returned", !.failure = "open"]
                        ELSE [load EXCEPT !.at = "allocate"]
  /\ UNCHANGED <<queue_vars, thread_vars, frame_vars, history_vars, tile_vars,
                 raster_vars, render_queue_vars, startup,
                 gs, call>>

\* lines 137-153: linux_allocate, and with memory the size is set and the
\* file read; close and return.
LoadFileAllocate ==
  /\ load.at = "allocate"
  /\ \E fails \in BOOLEAN, read_fails \in BOOLEAN :
       LET \* A file of st_size bytes read into the allocation; a read() that
           \* fails leaves the fresh pages zeroed (its result is not looked
           \* at, line 144).
           FileRead(disk) ==
             [size |-> sizeof_bitmap_header + 4 * disk.width * disk.height,
              allocated |-> TRUE,
              contents |-> IF read_fails
                             THEN [file_type |-> 0, bits_per_pixel |-> 0,
                                   width |-> 0, height |-> 0, pixels |-> <<>>]
                             ELSE disk]
       IN load' = IF fails
                    THEN [load EXCEPT !.at = "returned", !.failure = "allocate"]
                    ELSE [load EXCEPT !.at = "returned",
                                      !.file = FileRead(load.disk)]
  /\ UNCHANGED <<queue_vars, thread_vars, frame_vars, history_vars, tile_vars,
                 raster_vars, render_queue_vars, startup,
                 gs, call>>

\* load_bitmap, lines 247-271: row y of the result is row height - 1 - y of
\* the file.
load_bitmap_memory(contents) ==
  [i \in 0..(contents.width * contents.height - 1) |->
     LET y == i \div contents.width
         x == i % contents.width
         \* lines 256-267: the colour channels are multiplied by a / 255 and
         \* (u32)(. + 0.5f) of each is packed with the alpha.
         load_bitmap_color(color) ==
           Pixel(color.a,
                 (2 * color.r * color.a + 255) \div (2 * 255),
                 (2 * color.g * color.a + 255) \div (2 * 255),
                 (2 * color.b * color.a + 255) \div (2 * 255))
     IN load_bitmap_color(
          contents.pixels[((contents.height - 1 - y) * contents.width) + x + 1])]

\* generate_null_bitmap, lines 217-229, with the pixels left zero.
generate_null_bitmap_zero(width, height) ==
  [width |-> width, height |-> height,
   memory |-> [i \in 0..(width * height - 1) |-> Pixel(0, 0, 0, 0)]]

\* generate_null_bitmap, lines 217-229: every pixel is 0xFFFF00FF.
generate_null_bitmap(width, height) ==
  [width |-> width, height |-> height,
   memory |-> [i \in 0..(width * height - 1) |-> Pixel(255, 255, 0, 255)]]

\* load_bitmap, lines 240-274: the file has a size; the two assertions,
\* the pixels, platform_free_file.
LoadBitmapFile ==
  /\ ~aborted
  /\ load.at = "returned"
  /\ load.file.size > 0
  /\ LET contents == load.file.contents
     IN IF contents.file_type = BM /\ contents.bits_per_pixel = 32
          THEN /\ load' = [load EXCEPT
                             !.at = "loaded",
                             !.file = [size |-> 0, allocated |-> FALSE],
                             !.result = [width |-> contents.width,
                                         height |-> contents.height,
                                         memory |-> load_bitmap_memory(contents)]]
               /\ UNCHANGED aborted
          ELSE /\ load' = [load EXCEPT !.at = "assert_failed"]
               /\ aborted' = TRUE
  /\ UNCHANGED <<queue_vars, thread_vars, frame, batch, tile_index,
                 history_vars, tile_vars, raster_vars, render_queue_vars, startup,
                 gs, call>>

\* load_bitmap, lines 275-281: the file has no size; the dummy bitmap of
\* generate_null_tile (lines 231-234).
LoadBitmapNull ==
  /\ ~aborted
  /\ load.at = "returned"
  /\ ~(load.file.size > 0)
  /\ load' = [load EXCEPT !.at = "loaded", !.result =
                        generate_null_bitmap(TILE_DIMENSION_PIXELS, TILE_DIMENSION_PIXELS)]
  /\ UNCHANGED <<queue_vars, thread_vars, frame_vars, history_vars, tile_vars,
                 raster_vars, render_queue_vars, startup,
                 gs, call>>

(***************************************************************************)
(* main() of platform_linux.c, lines 906-928 (WinMain of platform_win32.c, *)
(* lines 764-781, holds the same code): the creation of the threads.       *)
(***************************************************************************)
\* main() is past the creation of the threads, and no file is being loaded.
InitPlatform ==
  /\ startup = [at |-> "started", processor_count |-> 0,
                worker_thread_count |-> 0, index |-> 0, failed |-> FALSE]
  /\ load = [at |-> "none"]

\* lines 912-918 with the loop over the threads begun at index 0.
StartupCount_from_zero ==
  /\ startup.at = "main"
  /\ startup' = [startup EXCEPT
                   !.at = "create",
                   !.worker_thread_count =
                      MINIMUM(startup.processor_count, LINUX_WORKER_THREAD_COUNT),
                   !.index = 0]
  /\ UNCHANGED <<queue_vars, thread_vars, frame_vars, history_vars, tile_vars,
                 raster_vars, render_queue_vars, load,
                 gs, call>>

\* lines 912-918: worker_thread_count = MINIMUM(processor_count,
\* LINUX_WORKER_THREAD_COUNT), the queue zeroed, sem_init, and index = 1.
StartupCount ==
  /\ startup.at = "main"
  /\ startup' = [startup EXCEPT
                   !.at = "create",
                   !.worker_thread_count =
                      MINIMUM(startup.processor_count, LINUX_WORKER_THREAD_COUNT),
                   !.index = 1]
  /\ UNCHANGED <<queue_vars, thread_vars, frame_vars, history_vars, tile_vars,
                 raster_vars, render_queue_vars, load,
                 gs, call>>

\* lines 918-927: one pass of the loop; pthread_create starts a thread, or
\* fails, which is logged and skipped.
StartupCreate ==
  /\ startup.at = "create"
  /\ startup.index < startup.worker_thread_count
  /\ \E created \in BOOLEAN :
       /\ background_threads' = IF created THEN background_threads + 1
                                           ELSE background_threads
       /\ startup' = [startup EXCEPT !.index = startup.index + 1,
                                     !.failed = startup.failed \/ ~created]
  /\ UNCHANGED <<queue_vars, pc, local_read_index, local_entry, new_write_index,
                 frame_vars, history_vars, tile_vars, raster_vars,
                 render_queue_vars, load,
                 gs, call>>

\* line 918: the loop ends.
StartupCreated ==
  /\ startup.at = "create"
  /\ startup.index >= startup.worker_thread_count
  /\ startup' = [startup EXCEPT !.at = "created"]
  /\ UNCHANGED <<queue_vars, thread_vars, frame_vars, history_vars, tile_vars,
                 raster_vars, render_queue_vars, load,
                 gs, call>>

(***************************************************************************)
(* platform_intrinsics.h: the four-lane interface on its two backends.  A  *)
(* lane is kept as its element type and its value num / den.  The screen   *)
(* routine hands f32_4x_convert_u32_4x the masked channels (integer lanes) *)
(* and u32_4x_convert_f32_4x the blended channels (float lanes).           *)
(***************************************************************************)

Lane(type, num, den) == [type |-> type, num |-> num, den |-> den]

NoLane == Lane("none", 0, 1)

\* What an interface name gives for a lane on a backend.  On NEON
\* u32_4x_convert_f32_4x is vcvtq_f32_u32 and is handed a float lane: it is
\* rejected, or takes the lane's bits for an integer; f32_4x_convert_u32_4x
\* is vcvtq_u32_f32 and is handed an integer lane below 2^23: it is
\* rejected, or takes the lane's bits for a float, a denormal it turns to 0.
\* Rejected: arm_neon.h declares vcvtq_f32_u32(uint32x4_t) and
\* vcvtq_u32_f32(float32x4_t), and a vector of the other element type is no
\* argument for them unless the compiler allows lax vector conversions.
Convert(backend, name, lane) ==
  LET \* The 32 bits of a float lane: 0.0f, 0.5f, 1.5f, 2.5f and 255.0f.
      f32_bits(f32) ==
        CASE f32.num = 0 -> 0
          [] f32.num = 1 /\ f32.den = 2 -> 1056964608
          [] f32.num = 3 /\ f32.den = 2 -> 1069547520
          [] f32.num = 5 /\ f32.den = 2 -> 1075838976
          [] f32.num = 255 /\ f32.den = 1 -> 1132396544
      \* line 39: _mm_cvtps_epi32, float lanes to integer lanes, to nearest
      \* even.
      mm_cvtps_epi32(f32) == Lane("u32", u32_4x_convert_f32_4x(f32.num, f32.den), 1)
      \* line 45: _mm_cvtepi32_ps, integer lanes to float lanes.
      mm_cvtepi32_ps(u32) == Lane("f32", u32.num, 1)
      \* line 18: vcvtq_f32_u32, integer lanes to float lanes (these integers
      \* have at most 24 significant bits).
      vcvtq_f32_u32(u32) == Lane("f32", u32.num, 1)
      \* line 24: vcvtq_u32_f32, float lanes to integer lanes, towards zero.
      vcvtq_u32_f32(f32) == Lane("u32", f32.num \div f32.den, 1)
  IN CASE name = "u32_4x_convert_f32_4x" /\ backend = "SSE" -> {mm_cvtps_epi32(lane)}
       [] name = "u32_4x_convert_f32_4x" /\ backend = "NEON" ->
            {Lane("rejected", 0, 1), vcvtq_f32_u32(Lane("u32", f32_bits(lane), 1))}
       [] name = "f32_4x_convert_u32_4x" /\ backend = "SSE" -> {mm_cvtepi32_ps(lane)}
       [] name = "f32_4x_convert_u32_4x" /\ backend = "NEON" ->
            {Lane("rejected", 0, 1), vcvtq_u32_f32(Lane("f32", 0, 1))}
       [] name = "u32_4x_or" -> {Lane("u32", u32_4x_or(lane.num, 240), 1)}

\* One operation of the interface is evaluated on one backend.
ConvertLane(backend) ==
  /\ raster.op = "lane"
  /\ raster.result[backend] = NoLane
  /\ \E result \in Convert(backend, raster.name, raster.operand) :
       raster' = [raster EXCEPT !.result[backend] = result]
  /\ UNCHANGED <<queue_vars, thread_vars, frame_vars, history_vars, tile_vars,
                 destination, source, render_queue_vars, platform_vars, gs, call>>

(***************************************************************************)
(* sokoban.c: the level, the undo ring and move_player.  A u32 is kept in  *)
(* two's complement, so 0xFFFFFFFF, which 0 - 1 gives, is -1.  A tile map  *)
(* is a function from <<y, x>> to the tile type; gs.undos holds the slots  *)
(* of gs->undos that have been written, every other slot being zero.       *)
(***************************************************************************)
\* is_tile_position_in_bounds with the coordinates compared as signed.
is_tile_position_in_bounds_signed(x, y) ==
  x < gs.tile_count_x /\ y < gs.tile_count_y

\* lines 449-455.  The comparisons are those of u32 values: x >= 0 holds of
\* every x, and 0xFFFFFFFF is not below the tile count.
is_tile_position_in_bounds(x, y) ==
  LET u32_less(a, b) == IF (a < 0) = (b < 0) THEN a < b ELSE b < 0
  IN /\ ~u32_less(x, 0) /\ u32_less(x, gs.tile_count_x)
     /\ ~u32_less(y, 0) /\ u32_less(y, gs.tile_count_y)

\* lines 741-747, 765-771 and 803-809: the switch on the direction.
direction_switch(direction, x, y) ==
  CASE direction = "UP" -> [x |-> x, y |-> y - 1]
    [] direction = "DOWN" -> [x |-> x, y |-> y + 1]
    [] direction = "LEFT" -> [x |-> x - 1, y |-> y]
    [] direction = "RIGHT" -> [x |-> x + 1, y |-> y]

\* lines 520-618: load_level on the rows of a level file, each ended by a
\* newline, in a grid of tile_count_x by tile_count_y tiles.  The level is
\* zeroed, the rows are centred, and the player is the last player tile read.
load_level(rows, tile_count_x, tile_count_y) ==
  LET level_height == Len(rows)
      longest == CHOOSE r \in 1..Len(rows) :
                   \A q \in 1..Len(rows) : Len(rows[q]) <= Len(rows[r])
      level_width == Len(rows[longest])
      minx == (tile_count_x - level_width) \div 2
      miny == (tile_count_y - level_height) \div 2
      maxx == minx + level_width - 1
      maxy == miny + level_height - 1
      character(y, x) ==
        IF x - minx + 1 <= Len(rows[y - miny + 1])
          THEN rows[y - miny + 1][x - minx + 1]
          ELSE " "
      type(c) == CASE c = "@" -> "PLAYER"
                   [] c = "+" -> "PLAYER_ON_GOAL"
                   [] c = "$" -> "BOX"
                   [] c = "*" -> "BOX_ON_GOAL"
                   [] c = "#" -> "WALL"
                   [] c = "." -> "GOAL"
                   [] c = " " -> "FLOOR"
      tiles == [cell \in (0..(tile_count_y - 1)) \X (0..(tile_count_x - 1)) |->
                  IF cell[1] \in miny..maxy /\ cell[2] \in minx..maxx
                    THEN type(character(cell[1], cell[2]))
                    ELSE "FLOOR"]
      players == {cell \in DOMAIN tiles :
                    tiles[cell] \in {"PLAYER", "PLAYER_ON_GOAL"}}
      last == CHOOSE cell \in players :
                \A other \in players :
                  other[1] < cell[1] \/ (other[1] = cell[1] /\ other[2] <= cell[2])
  IN [file_path |-> rows,
      map |-> [player_tilex |-> IF players = {} THEN 0 ELSE last[2],
               player_tiley |-> IF players = {} THEN 0 ELSE last[1],
               tiles |-> tiles],
      move_count |-> 0,
      push_count |-> 0]

\* push_undo with an undo_count that is not held at the length of undos.
push_undo_uncapped(g) ==
  LET undo_index == (g.undo_index + 1) % ARRAY_LENGTH_undos
      level == g.levels[g.level_index]
  IN [g EXCEPT !.undo_index = undo_index,
               !.undo_count = g.undo_count + 1,
               !.undos = (undo_index :> [player_tilex |-> level.map.player_tilex,
                                         player_tiley |-> level.map.player_tiley,
                                         push_count |-> level.push_count,
                                         tiles |-> level.map.tiles]) @@ @]

\* lines 659-678.
push_undo(g) ==
  LET undo_index == (g.undo_index + 1) % ARRAY_LENGTH_undos
      level == g.levels[g.level_index]
  IN [g EXCEPT !.undo_index = undo_index,
               !.undo_count = MINIMUM(g.undo_count + 1, ARRAY_LENGTH_undos),
               !.undos = (undo_index :> [player_tilex |-> level.map.player_tilex,
                                         player_tiley |-> level.map.player_tiley,
                                         push_count |-> level.push_count,
                                         tiles |-> level.map.tiles]) @@ @]

\* pop_undo with move_count left alone.
pop_undo_keeps_move_count(g) ==
  IF g.undo_count > 0
    THEN LET undo == g.undos[g.undo_index]
         IN [g EXCEPT !.levels[g.level_index].map.player_tilex = undo.player_tilex,
                      !.levels[g.level_index].map.player_tiley = undo.player_tiley,
                      !.levels[g.level_index].map.tiles = undo.tiles,
                      !.undo_index = IF g.undo_index > 0
                                       THEN g.undo_index - 1
                                       ELSE ARRAY_LENGTH_undos - 1,
                      !.undo_count = g.undo_count - 1,
                      !.levels[g.level_index].push_count = undo.push_count]
    ELSE g

\* pop_undo with the player's tile position left alone.
pop_undo_keeps_player(g) ==
  IF g.undo_count > 0
    THEN LET undo == g.undos[g.undo_index]
         IN [g EXCEPT !.levels[g.level_index].map.tiles = undo.tiles,
                      !.undo_index = IF g.undo_index > 0
                                       THEN g.undo_index - 1
                                       ELSE ARRAY_LENGTH_undos - 1,
                      !.undo_count = g.undo_count - 1,
                      !.levels[g.level_index].move_count = @ - 1,
                      !.levels[g.level_index].push_count = undo.push_count]
    ELSE g

\* pop_undo without its test of undo_count.
pop_undo_unguarded(g) ==
  LET undo == IF g.undo_index \in DOMAIN g.undos
                THEN g.undos[g.undo_index]
                ELSE [player_tilex |-> 0, player_tiley |-> 0,
                      push_count |-> 0,
                      tiles |-> [cell \in DOMAIN g.levels[g.level_index].map.tiles |->
                                   "FLOOR"]]
  IN [g EXCEPT !.levels[g.level_index].map.player_tilex = undo.player_tilex,
               !.levels[g.level_index].map.player_tiley = undo.player_tiley,
               !.levels[g.level_index].map.tiles = undo.tiles,
               !.undo_index = IF g.undo_index > 0
                                THEN g.undo_index - 1
                                ELSE ARRAY_LENGTH_undos - 1,
               !.undo_count = MAXIMUM(g.undo_count - 1, 0),
               !.levels[g.level_index].move_count = @ - 1,
               !.levels[g.level_index].push_count = undo.push_count]

\* lines 680-704.  A slot never written is zero: a map of floor tiles.
pop_undo(g) ==
  IF g.undo_count > 0
    THEN LET undo == IF g.undo_index \in DOMAIN g.undos
                       THEN g.undos[g.undo_index]
                       ELSE [player_tilex |-> 0, player_tiley |-> 0,
                             push_count |-> 0,
                             tiles |-> [cell \in DOMAIN g.levels[g.level_index].map.tiles |->
                                          "FLOOR"]]
         IN [g EXCEPT !.levels[g.level_index].map.player_tilex = undo.player_tilex,
                      !.levels[g.level_index].map.player_tiley = undo.player_tiley,
                      !.levels[g.level_index].map.tiles = undo.tiles,
                      !.undo_index = IF g.undo_index > 0
                                       THEN g.undo_index - 1
                                       ELSE ARRAY_LENGTH_undos - 1,
                      !.undo_count = g.undo_count - 1,
                      !.levels[g.level_index].move_count = @ - 1,
                      !.levels[g.level_index].push_count = undo.push_count]
    ELSE g

\* lines 822-826, over and over until push_count pushes of a box are
\* counted: each push is counted and the level is recorded with that count.
\* (The pushes are made half by half so that the evaluation stays shallow.)
RECURSIVE push_undos(_, _)
push_undos(g, push_count) ==
  LET counted == g.levels[g.level_index].push_count
  IN IF counted = push_count
       THEN g
       ELSE IF counted + 1 = push_count
         THEN push_undo([g EXCEPT !.levels[g.level_index].push_count = @ + 1])
         ELSE push_undos(push_undos(g, counted + ((push_count - counted) \div 2)),
                         push_count)

\* What push_undo records of the current level, and pop_undo gives back to it.
tile_map_state(g) ==
  LET level == g.levels[g.level_index]
  IN [player_tilex |-> level.map.player_tilex,
      player_tiley |-> level.map.player_tiley,
      push_count |-> level.push_count,
      tiles |-> level.map.tiles]

\* Calls of pop_undo in a row, until count states have been given back:
\* from.popped lists the states given back so far, from.gs is the state that
\* the calls have left.  (Half by half, as the pushes.)
RECURSIVE pop_undos(_, _)
pop_undos(from, count) ==
  LET left == count - Len(from.popped)
  IN IF left = 0
       THEN from
       ELSE IF left = 1
         THEN [gs |-> pop_undo(from.gs),
               popped |-> Append(from.popped, tile_map_state(pop_undo(from.gs)))]
         ELSE pop_undos(pop_undos(from, count - (left \div 2)), count)

\* No call of the game's operations is in progress, and none has been made.
NoCall ==
  [at |-> "idle", caller |-> "none", op |-> "none", direction |-> "UP",
   movement |-> "WALK", potential_box |-> [x |-> 0, y |-> 0],
   result |-> [initial_player |-> [x |-> 0, y |-> 0],
               final_player |-> [x |-> 0, y |-> 0],
               initial_box |-> [x |-> 0, y |-> 0],
               final_box |-> [x |-> 0, y |-> 0],
               player_tile_delta |-> 0, box_tile_delta |-> 0],
   before |-> [move_count |-> 0, push_count |-> 0, undo_count |-> 0],
   advanced |-> 0, iterations |-> 0, pops |-> 0, stray |-> FALSE, calls |-> 0,
   frames |-> 0, input |-> {}, called |-> {}, dropped |-> FALSE,
   start |-> [menu_state |-> "NONE", player_movement |-> 0, level_transition |-> 0]]

\* lines 721-732: move_player is entered; the scan for a box starts at the
\* player.  `before` keeps the level as the call found it.
move_player(g, direction, movement, caller) ==
  LET level == g.levels[g.level_index]
      player == [x |-> level.map.player_tilex, y |-> level.map.player_tiley]
  IN [call EXCEPT !.at = "scan", !.caller = caller, !.op = "move_player",
                  !.direction = direction, !.movement = movement,
                  !.potential_box = player,
                  !.result = [NoCall.result EXCEPT !.initial_player = player,
                                                   !.final_player = player],
                  !.before = [map |-> level.map,
                              move_count |-> level.move_count,
                              push_count |-> level.push_count,
                              undo_count |-> g.undo_count],
                  !.advanced = 0, !.iterations = 0, !.pops = 0, !.calls = @ + 1,
                  !.called = @ \cup {"move_player"}]

\* A caller other than game_update calls move_player.
MovePlayerCall(direction, movement) ==
  /\ call.at = "idle"
  /\ call.calls < MaxCalls
  /\ call' = move_player(gs, direction, movement, "direct")
  /\ UNCHANGED <<queue_vars, thread_vars, frame_vars, history_vars, tile_vars,
                 raster_vars, render_queue_vars, platform_vars, gs>>

\* lines 733-750: one test of the while loop that looks for the first box
\* ahead of the player, and the iteration or the exit that follows it.
MovePlayerScan ==
  /\ call.at = "scan"
  /\ LET level == gs.levels[gs.level_index]
         box == call.potential_box
         found == [call EXCEPT !.at = "loop",
                               !.result.initial_box = box,
                               !.result.final_box = box]
     IN IF is_tile_position_in_bounds(box.x, box.y)
          THEN IF <<box.y, box.x>> \notin DOMAIN level.map.tiles
                 THEN call' = [call EXCEPT !.at = "stray", !.stray = TRUE]
                 ELSE IF level.map.tiles[<<box.y, box.x>>] \in {"BOX", "BOX_ON_GOAL"}
                        THEN call' = found
                        ELSE call' = [call EXCEPT !.potential_box =
                                        direction_switch(call.direction, box.x, box.y),
                                                  !.iterations = @ + 1]
          ELSE call' = found
  /\ UNCHANGED <<queue_vars, thread_vars, frame_vars, history_vars, tile_vars,
                 raster_vars, render_queue_vars, platform_vars, gs>>

\* MovePlayerLoop without the test of line 820: a dash pushes as a walk does.
MovePlayerLoop_dash_pushes ==
  /\ call.at = "loop"
  /\ LET level == gs.levels[gs.level_index]
         tiles == level.map.tiles
         ox == level.map.player_tilex
         oy == level.map.player_tiley
         p == direction_switch(call.direction, ox, oy)
         b == direction_switch(call.direction, p.x, p.y)
         left == IF tiles[<<oy, ox>>] = "PLAYER_ON_GOAL" THEN "GOAL" ELSE "FLOOR"
         break == /\ call' = [call EXCEPT !.at = "return"]
                  /\ UNCHANGED gs
         \* lines 781-790 and 826-839: the undo, the player and the result.
         advance(g, written, box, continue) ==
           /\ gs' = [push_undo(g) EXCEPT
                       !.levels[g.level_index].map.player_tilex = p.x,
                       !.levels[g.level_index].map.player_tiley = p.y,
                       !.levels[g.level_index].map.tiles = written @@ @]
           /\ call' = [call EXCEPT !.at = IF continue THEN "loop" ELSE "return",
                                   !.result.final_player = p,
                                   !.result.final_box = box,
                                   !.advanced = @ + 1,
                                   !.iterations = @ + 1]
     IN IF <<oy, ox>> \notin DOMAIN tiles
          THEN /\ call' = [call EXCEPT !.at = "stray", !.stray = TRUE]
               /\ UNCHANGED gs
          ELSE IF tiles[<<oy, ox>>] \notin {"PLAYER", "PLAYER_ON_GOAL"}
          THEN /\ call' = [call EXCEPT !.at = "assert_failed"]
               /\ UNCHANGED gs
          ELSE IF ~is_tile_position_in_bounds(p.x, p.y)
          THEN break
          ELSE IF <<p.y, p.x>> \notin DOMAIN tiles
          THEN /\ call' = [call EXCEPT !.at = "stray", !.stray = TRUE]
               /\ UNCHANGED gs
          ELSE IF tiles[<<p.y, p.x>>] \in {"FLOOR", "GOAL"}
          THEN advance(gs,
                       (<<oy, ox>> :> left) @@
                       (<<p.y, p.x>> :> IF tiles[<<p.y, p.x>>] = "GOAL"
                                          THEN "PLAYER_ON_GOAL" ELSE "PLAYER"),
                       call.result.final_box,
                       call.movement \in {"DASH", "CHARGE"})
          ELSE IF tiles[<<p.y, p.x>>] \notin {"BOX", "BOX_ON_GOAL"}
          THEN break
          ELSE IF ~is_tile_position_in_bounds(b.x, b.y)
          THEN break
          ELSE IF <<b.y, b.x>> \notin DOMAIN tiles
          THEN /\ call' = [call EXCEPT !.at = "stray", !.stray = TRUE]
               /\ UNCHANGED gs
          ELSE IF tiles[<<b.y, b.x>>] \in {"FLOOR", "GOAL"}
          THEN advance([gs EXCEPT !.levels[gs.level_index].push_count =
                                    IF b.x # p.x \/ b.y # p.y THEN @ + 1 ELSE @],
                       (<<oy, ox>> :> left) @@
                       (<<p.y, p.x>> :> IF tiles[<<p.y, p.x>>] = "BOX_ON_GOAL"
                                          THEN "PLAYER_ON_GOAL" ELSE "PLAYER") @@
                       (<<b.y, b.x>> :> IF tiles[<<b.y, b.x>>] = "GOAL"
                                          THEN "BOX_ON_GOAL" ELSE "BOX"),
                       b,
                       call.movement = "CHARGE")
          ELSE break
  /\ UNCHANGED <<queue_vars, thread_vars, frame_vars, history_vars, tile_vars,
                 raster_vars, render_queue_vars, platform_vars>>

\* lines 752-851: one iteration of the while(1) loop.
MovePlayerLoop ==
  /\ call.at = "loop"
  /\ LET level == gs.levels[gs.level_index]
         tiles == level.map.tiles
         ox == level.map.player_tilex
         oy == level.map.player_tiley
         p == direction_switch(call.direction, ox, oy)
         b == direction_switch(call.direction, p.x, p.y)
         left == IF tiles[<<oy, ox>>] = "PLAYER_ON_GOAL" THEN "GOAL" ELSE "FLOOR"
         break == /\ call' = [call EXCEPT !.at = "return"]
                  /\ UNCHANGED gs
         \* lines 781-790 and 826-839: the undo, the player and the result.
         advance(g, written, box, continue) ==
           /\ gs' = [push_undo(g) EXCEPT
                       !.levels[g.level_index].map.player_tilex = p.x,
                       !.levels[g.level_index].map.player_tiley = p.y,
                       !.levels[g.level_index].map.tiles = written @@ @]
           /\ call' = [call EXCEPT !.at = IF continue THEN "loop" ELSE "return",
                                   !.result.final_player = p,
                                   !.result.final_box = box,
                                   !.advanced = @ + 1,
                                   !.iterations = @ + 1]
     IN IF <<oy, ox>> \notin DOMAIN tiles
          THEN /\ call' = [call EXCEPT !.at = "stray", !.stray = TRUE]
               /\ UNCHANGED gs
          ELSE IF tiles[<<oy, ox>>] \notin {"PLAYER", "PLAYER_ON_GOAL"}
          THEN /\ call' = [call EXCEPT !.at = "assert_failed"]
               /\ UNCHANGED gs
          ELSE IF ~is_tile_position_in_bounds(p.x, p.y)
          THEN break
          ELSE IF <<p.y, p.x>> \notin DOMAIN tiles
          THEN /\ call' = [call EXCEPT !.at = "stray", !.stray = TRUE]
               /\ UNCHANGED gs
          ELSE IF tiles[<<p.y, p.x>>] \in {"FLOOR", "GOAL"}
          THEN advance(gs,
                       (<<oy, ox>> :> left) @@
                       (<<p.y, p.x>> :> IF tiles[<<p.y, p.x>>] = "GOAL"
                                          THEN "PLAYER_ON_GOAL" ELSE "PLAYER"),
                       call.result.final_box,
                       call.movement \in {"DASH", "CHARGE"})
          ELSE IF tiles[<<p.y, p.x>>] \notin {"BOX", "BOX_ON_GOAL"}
          THEN break
          ELSE IF ~is_tile_position_in_bounds(b.x, b.y)
          THEN break
          ELSE IF <<b.y, b.x>> \notin DOMAIN tiles
          THEN /\ call' = [call EXCEPT !.at = "stray", !.stray = TRUE]
               /\ UNCHANGED gs
          ELSE IF tiles[<<b.y, b.x>>] \in {"FLOOR", "GOAL"} /\ call.movement # "DASH"
          THEN advance([gs EXCEPT !.levels[gs.level_index].push_count =
                                    IF b.x # p.x \/ b.y # p.y THEN @ + 1 ELSE @],
                       (<<oy, ox>> :> left) @@
                       (<<p.y, p.x>> :> IF tiles[<<p.y, p.x>>] = "BOX_ON_GOAL"
                                          THEN "PLAYER_ON_GOAL" ELSE "PLAYER") @@
                       (<<b.y, b.x>> :> IF tiles[<<b.y, b.x>>] = "GOAL"
                                          THEN "BOX_ON_GOAL" ELSE "BOX"),
                       b,
                       call.movement = "CHARGE")
          ELSE break
  /\ UNCHANGED <<queue_vars, thread_vars, frame_vars, history_vars, tile_vars,
                 raster_vars, render_queue_vars, platform_vars>>

\* lines 854-871: the deltas and move_count; the result goes to the caller.
MovePlayerReturn ==
  /\ call.at = "return"
  /\ LET abs(n) == IF n < 0 THEN 0 - n ELSE n
         result == call.result
         player_tile_delta == abs(result.final_player.x - result.initial_player.x)
                                + abs(result.final_player.y - result.initial_player.y)
         box_tile_delta == abs(result.final_box.x - result.initial_box.x)
                             + abs(result.final_box.y - result.initial_box.y)
         returned == [result EXCEPT !.player_tile_delta = player_tile_delta,
                                    !.box_tile_delta = box_tile_delta]
     IN /\ gs' = [gs EXCEPT !.levels[gs.level_index].move_count = @ + player_tile_delta,
                            !.movement = IF call.caller = "game_update"
                                           THEN returned ELSE @]
        /\ call' = [call EXCEPT !.at = IF call.caller = "game_update"
                                         THEN "inputs" ELSE "idle",
                                !.result = returned]
  /\ UNCHANGED <<queue_vars, thread_vars, frame_vars, history_vars, tile_vars,
                 raster_vars, render_queue_vars, platform_vars>>

\* A caller other than game_update calls pop_undo.  `pops` counts the calls
\* that found an undo to take.
PopUndoCall ==
  /\ call.at = "idle"
  /\ gs' = pop_undo(gs)
  /\ call' = [call EXCEPT !.op = "pop_undo",
                          !.pops = IF gs.undo_count > 0 THEN @ + 1 ELSE @]
  /\ UNCHANGED <<queue_vars, thread_vars, frame_vars, history_vars, tile_vars,
                 raster_vars, render_queue_vars, platform_vars>>

\* is_something_animating with a loop that stops after the first timer.
is_something_animating_first(g) == g.player_movement > 0

\* lines 899-914: one of the two animation timers has seconds remaining.
is_something_animating(g) == g.player_movement > 0 \/ g.level_transition > 0

\* lines 979-998: the file sokoban.save as save_game writes it.
save_game(g) ==
  [g EXCEPT !.save = <<[level_index |-> g.level_index,
                        level |-> g.levels[g.level_index],
                        undo_index |-> g.undo_index,
                        undo_count |-> g.undo_count,
                        undos |-> g.undos]>>]

\* lines 1031-1053, with load_level's lines 525-530 and 581-637 for the level
\* file that store_level has found valid.  undos keeps its contents.
set_level(g, index) ==
  LET level == g.levels[index]
  IN save_game([g EXCEPT !.level_index = index,
                         !.level_transition = level_transition_seconds_duration,
                         !.player_movement = 0,
                         !.movement = NoCall.result,
                         !.levels[index] = load_level(level.file_path, g.tile_count_x,
                                                      g.tile_count_y),
                         !.undo_index = 0,
                         !.undo_count = 0])

\* game_update, lines 1574-1640: a frame begins with the buttons in `pressed`
\* just pressed (was_pressed), those in `held` down (is_pressed) and `seconds`
\* elapsed since the frame before.  A frame that shows a menu, opens the
\* pause menu or finds an animation running serves no button; another one
\* calls move_player if a direction was pressed.  call.start keeps what the
\* frame found, call.dropped that a frame has left a direction or an undo
\* unserved.
GameUpdate(pressed, held, seconds) ==
  /\ call.at = "idle"
  /\ call.frames < MaxGameFrames
  /\ LET \* lines 1000-1029.
         load_game(g) ==
           IF g.save = <<>>
             THEN g
             ELSE LET data == g.save[1]
                  IN [g EXCEPT !.level_index = data.level_index,
                               !.levels[data.level_index].map = data.level.map,
                               !.levels[data.level_index].move_count =
                                 data.level.move_count,
                               !.levels[data.level_index].push_count =
                                 data.level.push_count,
                               !.undo_index = data.undo_index,
                               !.undo_count = data.undo_count,
                               !.undos = data.undos]
         \* lines 1232-1239.
         title_menu(g) ==
           IF "confirm" \in pressed
             THEN [g EXCEPT !.menu_state = "NONE",
                            !.level_transition = level_transition_seconds_duration]
             ELSE g
         \* lines 1252-1269.
         pause_menu(g) ==
           IF "pause" \in pressed \/ "confirm" \in pressed
             THEN [g EXCEPT !.menu_state = "NONE"]
             ELSE IF "cancel" \in pressed
               THEN [g EXCEPT !.menu_state = "TITLE"]
               ELSE IF "move_up" \in pressed
                 THEN [g EXCEPT !.level_index = IF g.level_index = 0
                                                  THEN g.level_count - 1
                                                  ELSE g.level_index - 1]
                 ELSE IF "move_down" \in pressed
                   THEN [g EXCEPT !.level_index = IF g.level_index = g.level_count - 1
                                                    THEN 0
                                                    ELSE g.level_index + 1]
                   ELSE g
         \* lines 916-928.
         decrement_animation_timers(g) ==
           [g EXCEPT !.player_movement = MAXIMUM(@ - seconds, 0),
                     !.level_transition = MAXIMUM(@ - seconds, 0)]
         saved == IF "save" \in pressed THEN save_game(gs) ELSE gs
         loaded == IF "load" \in pressed THEN load_game(saved) ELSE saved
         movement == IF "dash" \in held
                       THEN "DASH"
                       ELSE IF "charge" \in held THEN "CHARGE" ELSE "WALK"
         begun == [call EXCEPT !.at = "end",
                               !.frames = @ + 1,
                               !.input = pressed,
                               !.called = {},
                               !.dropped = @ \/ pressed \cap {"move_up", "move_down",
                                                              "move_left", "move_right",
                                                              "undo"} # {},
                               !.start = [menu_state |-> gs.menu_state,
                                          player_movement |-> gs.player_movement,
                                          level_transition |-> gs.level_transition]]
         enter(direction) ==
           /\ gs' = [loaded EXCEPT !.movement = NoCall.result]
           /\ call' = [move_player(loaded, direction, movement, "game_update") EXCEPT
                         !.frames = begun.frames, !.input = begun.input,
                         !.called = {"move_player"}, !.start = begun.start,
                         !.dropped = call.dropped]
     IN IF loaded.menu_state = "TITLE"
          THEN gs' = title_menu(loaded) /\ call' = [begun EXCEPT !.op = "title_menu"]
          ELSE IF loaded.menu_state = "PAUSE"
          THEN gs' = pause_menu(loaded) /\ call' = [begun EXCEPT !.op = "pause_menu"]
          ELSE IF "pause" \in pressed
          THEN /\ gs' = [loaded EXCEPT !.menu_state = "PAUSE"]
               /\ call' = [begun EXCEPT !.op = "pause"]
          ELSE IF is_something_animating(loaded)
          THEN /\ gs' = decrement_animation_timers(loaded)
               /\ call' = [begun EXCEPT !.at = "complete", !.op = "animation"]
          ELSE IF "move_up" \in pressed THEN enter("UP")
          ELSE IF "move_down" \in pressed THEN enter("DOWN")
          ELSE IF "move_left" \in pressed THEN enter("LEFT")
          ELSE IF "move_right" \in pressed THEN enter("RIGHT")
          ELSE /\ gs' = [loaded EXCEPT !.movement = NoCall.result]
               /\ call' = [begun EXCEPT !.at = "inputs", !.op = "none",
                                        !.dropped = call.dropped]
  /\ UNCHANGED <<queue_vars, thread_vars, frame_vars, history_vars, tile_vars,
                 raster_vars, render_queue_vars, platform_vars>>

\* game_update, lines 1642-1669: the movement that move_player returned
\* starts its animation, and one of undo, reload, next and previous is
\* served.
GameUpdateInputs ==
  /\ call.at = "inputs"
  /\ LET pressed == call.input
         moved == IF gs.movement.player_tile_delta > 0
                    THEN [gs EXCEPT !.player_movement = player_movement_seconds_duration]
                    ELSE gs
         \* lines 1055-1059.
         next_level(g) == set_level(g, (g.level_index + 1) % g.level_count)
         \* lines 1061-1065.
         previous_level(g) ==
           set_level(g, IF g.level_index > 0 THEN g.level_index - 1 ELSE g.level_count - 1)
         \* lines 1067-1070.
         reload_level(g) == set_level(g, g.level_index)
         served(g, op) ==
           /\ gs' = g
           /\ call' = [call EXCEPT !.at = "complete",
                                   !.op = IF op = "none" THEN @ ELSE op,
                                   !.called = IF op = "none" THEN @ ELSE @ \cup {op},
                                   !.pops = IF op = "pop_undo" /\ gs.undo_count > 0
                                              THEN @ + 1 ELSE @]
     IN IF "undo" \in pressed THEN served(pop_undo(moved), "pop_undo")
        ELSE IF "reload" \in pressed THEN served(reload_level(moved), "reload_level")
        ELSE IF "next" \in pressed THEN served(next_level(moved), "next_level")
        ELSE IF "previous" \in pressed THEN served(previous_level(moved), "previous_level")
        ELSE served(moved, "none")
  /\ UNCHANGED <<queue_vars, thread_vars, frame_vars, history_vars, tile_vars,
                 raster_vars, render_queue_vars, platform_vars>>

\* game_update, lines 1761-1770: the frame ends.  In a frame of play a level
\* with every goal under a box and nothing animating (is_level_complete,
\* lines 1072-1093) gives way to the next level.
GameUpdateEnd ==
  /\ call.at \in {"complete", "end"}
  /\ LET tiles == gs.levels[gs.level_index].map.tiles
         is_level_complete ==
           /\ ~is_something_animating(gs)
           /\ \A cell \in DOMAIN tiles : tiles[cell] \notin {"PLAYER_ON_GOAL", "GOAL"}
     IN gs' = IF call.at = "complete" /\ is_level_complete
                THEN set_level(gs, (gs.level_index + 1) % gs.level_count)
                ELSE gs
  /\ call' = [NoCall EXCEPT !.frames = call.frames, !.dropped = call.dropped]
  /\ UNCHANGED <<queue_vars, thread_vars, frame_vars, history_vars, tile_vars,
                 raster_vars, render_queue_vars, platform_vars>>

(***************************************************************************)
(* Spec: the producer and the background threads on the shortened ring,    *)
(* every frame enqueueing the same number of entries.                      *)
(***************************************************************************)
Init ==
  /\ \E threads \in 1..MaxWorkers, n \in 1..MaxBatch :
       InitQueue(RingLength, threads, n)
  /\ InitTiles
  /\ InitRenderQueue
  /\ InitPlatform
  /\ gs = [is_initialized |-> FALSE]
  /\ call = [at |-> "none"]
  /\ InitRaster

Next == Producer \/ \E t \in Workers : Worker(t)

Spec == Init /\ [][Next]_vars

\* Every thread keeps being scheduled.
SpecFair ==
  Spec /\ WF_vars(Producer) /\ \A t \in Workers : WF_vars(Worker(t))

(***************************************************************************)
(* SpecSolo: no background thread.  The ring of the build with the batch   *)
(* of the game, 64 entries and the most the ring takes; and every batch    *)
(* the shortened ring takes.                                               *)
(***************************************************************************)
InitSolo ==
  /\ \/ \E n \in {RENDER_TILE_COUNT_X * RENDER_TILE_COUNT_Y, 64,
                    ARRAY_LENGTH_entries - 1} : InitQueue(ARRAY_LENGTH_entries, 0, n)
     \/ \E n \in 0..(RingLength - 1) : InitQueue(RingLength, 0, n)
  /\ InitTiles
  /\ InitRenderQueue
  /\ InitPlatform
  /\ gs = [is_initialized |-> FALSE]
  /\ call = [at |-> "none"]
  /\ InitRaster

NextSolo == Producer

SpecSolo == InitSolo /\ [][NextSolo]_vars /\ WF_vars(Producer)

(***************************************************************************)
(* SpecEnqueue: a producer that calls platform_enqueue_work, one entry at  *)
(* a time, and never platform_complete_queue; the background threads run   *)
(* the entries.  The producer keeps the entries in flight below the length *)
(* of the ring, and every thread keeps being scheduled.                    *)
(***************************************************************************)
\* platform_enqueue_work is called for the next entry.
EnqueueOnlyBegin ==
  /\ ~aborted
  /\ pc[Main] = "frame_start"
  /\ frame < MaxEnqueues
  /\ Cardinality(published \ finished) < entries_length - 1
  /\ frame' = frame + 1
  /\ tile_index' = 0
  /\ Goto(Main, "enqueue_assert")
  /\ UNCHANGED <<queue_vars, background_threads, local_read_index, local_entry,
                 new_write_index, batch, aborted, history_vars>>
  /\ UNCHANGED <<tile_vars, raster_vars, render_queue_vars, platform_vars, gs, call>>

\* platform_enqueue_work has returned; the caller does not wait.
EnqueueOnlyReturn ==
  /\ ~aborted
  /\ pc[Main] = "complete_test"
  /\ Goto(Main, "frame_start")
  /\ UNCHANGED <<queue_vars, background_threads, local_read_index, local_entry,
                 new_write_index, frame_vars, history_vars>>
  /\ UNCHANGED <<tile_vars, raster_vars, render_queue_vars, platform_vars, gs, call>>

EnqueueOnlyProducer ==
  \/ EnqueueOnlyBegin
  \/ EnqueueAssert
  \/ EnqueueWrite
  \/ EnqueuePublish
  \/ EnqueuePost
  \/ EnqueueOnlyReturn

InitEnqueue ==
  /\ \E threads \in 1..MaxThreads : InitQueue(RingLength, threads, 1)
  /\ InitTiles
  /\ InitRenderQueue
  /\ InitPlatform
  /\ gs = [is_initialized |-> FALSE]
  /\ call = [at |-> "none"]
  /\ InitRaster

NextEnqueue == EnqueueOnlyProducer \/ \E t \in Workers : Worker(t)

SpecEnqueue ==
  /\ InitEnqueue
  /\ [][NextEnqueue]_vars
  /\ WF_vars(EnqueueOnlyProducer)
  /\ \A t \in Workers : WF_vars(Worker(t))

(***************************************************************************)
(* SpecClear: one call of immediate_clear on a bitmap of any width and     *)
(* height up to MaxWidth by MaxHeight, with either colour.                 *)
(***************************************************************************)
InitClear ==
  /\ InitQueue(RingLength, 0, 0)
  /\ InitTiles
  /\ InitRenderQueue
  /\ InitPlatform
  /\ gs = [is_initialized |-> FALSE]
  /\ call = [at |-> "none"]
  /\ \E width \in 0..MaxWidth, height \in 0..MaxHeight, seed \in {0, 1} :
       destination = [width |-> width, height |-> height,
                      memory |-> BitmapMemory(width, height, seed, 1)]
  /\ source = NoBitmap
  /\ \E color \in {PixelSamples[1], PixelSamples[3]} :
       raster = [op |-> "clear", at |-> "assert", color |-> color,
                 y |-> 0, x |-> 0, stray |-> {}]

NextClear == ClearAssert \/ ClearStore \/ ClearNextRow \/ ClearReturn

SpecClear == InitClear /\ [][NextClear]_vars

(***************************************************************************)
(* SpecScreen: one call of immediate_screen_bitmap with alpha_modulation   *)
(* 0.0f or 1.0f on bitmaps whose widths are multiples of 4; every pair of  *)
(* PixelSamples meets in some lane.                                        *)
(***************************************************************************)

InitScreen ==
  /\ InitQueue(RingLength, 0, 0)
  /\ InitTiles
  /\ InitRenderQueue
  /\ InitPlatform
  /\ gs = [is_initialized |-> FALSE]
  /\ call = [at |-> "none"]
  /\ \E width \in {width \in 1..MaxWidth : width % 4 = 0}, height \in 1..MaxHeight,
        seed \in 0..(Len(PixelSamples) - 1) :
       destination = [width |-> width, height |-> height,
                      memory |-> BitmapMemory(width, height, seed, 1)]
  /\ \E width \in {width \in 1..MaxWidth : width % 4 = 0}, height \in 1..MaxHeight,
        seed \in 0..(Len(PixelSamples) - 1) :
       source = [width |-> width, height |-> height,
                 memory |-> BitmapMemory(width, height, seed, 1)]
  /\ \E alpha_modulation \in {0, 1} :
       raster = [op |-> "screen", at |-> "assert",
                 alpha_modulation |-> alpha_modulation,
                 y |-> 0, x |-> 0, stray |-> {}, before |-> destination.memory]

NextScreen == ScreenAssert \/ ScreenStore \/ ScreenNextRow \/ ScreenReturn

SpecScreen == InitScreen /\ [][NextScreen]_vars

(***************************************************************************)
(* SpecBitmap: one call of immediate_bitmap of a source of 3 to MaxSource  *)
(* pixels a side (1 to MaxSource - 2 inside its margin) at scale 1 or      *)
(* TILE_BITMAP_SCALE, at every half-pixel position that overlaps or lies   *)
(* up to two pixels left of or above a MaxWidth by MaxHeight destination.  *)
(***************************************************************************)
InitBitmap ==
  /\ InitQueue(RingLength, 0, 0)
  /\ InitTiles
  /\ InitRenderQueue
  /\ InitPlatform
  /\ gs = [is_initialized |-> FALSE]
  /\ call = [at |-> "none"]
  /\ destination = [width |-> MaxWidth, height |-> MaxHeight,
                    memory |-> BitmapMemory(MaxWidth, MaxHeight, 0, 1)]
  /\ \E width \in 3..MaxSource, height \in 3..MaxSource :
       source = [width |-> width, height |-> height,
                 memory |-> BitmapMemory(width, height, 1, 1)]
  /\ \E posx \in Float(-2)..Float(MaxWidth - 1),
        posy \in Float(-2)..Float(MaxHeight - 1),
        scale \in {1, TILE_BITMAP_SCALE} :
       raster = [op |-> "bitmap", at |-> "bounds",
                 posx |-> posx, posy |-> posy,
                 render_width |-> (source.width - 2) * scale,
                 render_height |-> (source.height - 2) * scale,
                 bounds |-> NoRect, destinationx |-> 0, destinationy |-> 0,
                 sample |-> NoSample, count |-> 0,
                 before |-> destination.memory]

NextBitmap == BitmapBounds \/ BitmapPixel \/ BitmapNextRow \/ BitmapReturn

SpecBitmap == InitBitmap /\ [][NextBitmap]_vars

(***************************************************************************)
(* SpecRectangle: one call of immediate_rectangle on a MaxRectangle square *)
(* destination with each corner coordinate at any SubPixel step from below *)
(* -1 to above the far edge, and the call on a 32 by 32 destination        *)
(* cleared to 0xFF000000 from (4, 4) to (10, 10) with 0xFFFFFFFF.          *)
(***************************************************************************)
InitRectangle ==
  /\ InitQueue(RingLength, 0, 0)
  /\ InitTiles
  /\ InitRenderQueue
  /\ InitPlatform
  /\ gs = [is_initialized |-> FALSE]
  /\ call = [at |-> "none"]
  /\ source = NoBitmap
  /\ \/ /\ destination = [width |-> MaxRectangle, height |-> MaxRectangle,
                          memory |-> BitmapMemory(MaxRectangle, MaxRectangle, 0, 1)]
        /\ \E minx \in (Float(-1) - 1)..(Float(MaxRectangle) + 1),
              miny \in (Float(-1) - 1)..(Float(MaxRectangle) + 1),
              maxx \in (Float(-1) - 1)..(Float(MaxRectangle) + 1),
              maxy \in (Float(-1) - 1)..(Float(MaxRectangle) + 1) :
             raster = [op |-> "rectangle", at |-> "bounds",
                       min |-> [x |-> minx, y |-> miny],
                       max |-> [x |-> maxx, y |-> maxy],
                       color |-> PixelSamples[5], bounds |-> NoRect,
                       y |-> 0, x |-> 0, stray |-> {},
                       before |-> destination.memory]
     \/ /\ destination = [width |-> 32, height |-> 32,
                          memory |-> [i \in 0..(32 * 32 - 1) |-> Pixel(255, 0, 0, 0)]]
        /\ raster = [op |-> "rectangle", at |-> "bounds",
                     min |-> [x |-> Float(4), y |-> Float(4)],
                     max |-> [x |-> Float(10), y |-> Float(10)],
                     color |-> Pixel(255, 255, 255, 255), bounds |-> NoRect,
                     y |-> 0, x |-> 0, stray |-> {},
                     before |-> destination.memory]

NextRectangle ==
  RectangleBounds \/ RectangleStore \/ RectangleNextRow \/ RectangleReturn

SpecRectangle == InitRectangle /\ [][NextRectangle]_vars

(***************************************************************************)
(* SpecScreenWidths: one call of immediate_screen_bitmap on a destination  *)
(* and a source of the same dimensions, of any width up to MaxWidth.       *)
(***************************************************************************)
InitScreenWidths ==
  /\ InitQueue(RingLength, 0, 0)
  /\ InitTiles
  /\ InitRenderQueue
  /\ InitPlatform
  /\ gs = [is_initialized |-> FALSE]
  /\ call = [at |-> "none"]
  /\ \E width \in 1..MaxWidth, height \in 1..MaxHeight,
        seed \in 0..(Len(PixelSamples) - 1) :
       /\ destination = [width |-> width, height |-> height,
                         memory |-> BitmapMemory(width, height, seed, 1)]
       /\ \E source_seed \in 0..(Len(PixelSamples) - 1) :
            source = [width |-> width, height |-> height,
                      memory |-> BitmapMemory(width, height, source_seed, 1)]
  /\ \E alpha_modulation \in {0, 1} :
       raster = [op |-> "screen", at |-> "assert",
                 alpha_modulation |-> alpha_modulation,
                 y |-> 0, x |-> 0, stray |-> {}, before |-> destination.memory]

SpecScreenWidths == InitScreenWidths /\ [][NextScreen]_vars

(***************************************************************************)
(* SpecRenderQueue: up to MaxPushes entries pushed on the two layers by    *)
(* any of the push routines, then a flush, again and again.                *)
(***************************************************************************)
InitPush ==
  /\ InitQueue(RingLength, 0, 0)
  /\ InitTiles
  /\ InitRenderQueue
  /\ InitPlatform
  /\ gs = [is_initialized |-> FALSE]
  /\ call = [at |-> "none"]
  /\ InitRaster

NextRenderQueue ==
  \/ \E layer \in RenderLayers :
       \/ PushClear(layer)
       \/ PushRectangle(layer)
       \/ PushOutline(layer)
       \/ PushBitmap(layer)
       \/ PushTile(layer)
       \/ PushScreen(layer)
       \/ \E glyphs \in 0..MaxGlyphs : PushText(layer, glyphs)
  \/ FlushBegin
  \/ FlushEntry
  \/ FlushLayerEnd

SpecRenderQueue == InitPush /\ [][NextRenderQueue]_vars

(***************************************************************************)
(* SpecStartup: main() on a machine of 1 to MaxProcessors logical          *)
(* processors, every pthread_create succeeding or failing.                 *)
(***************************************************************************)
InitStartup ==
  /\ InitQueue(RingLength, 0, 0)
  /\ InitTiles
  /\ InitRenderQueue
  /\ InitRaster
  /\ \E processor_count \in 1..MaxProcessors :
       startup = [at |-> "main", processor_count |-> processor_count,
                  worker_thread_count |-> 0, index |-> 0, failed |-> FALSE]
  /\ load = [at |-> "none"]
  /\ gs = [is_initialized |-> FALSE]
  /\ call = [at |-> "none"]

NextStartup == StartupCount \/ StartupCreate \/ StartupCreated

SpecStartup == InitStartup /\ [][NextStartup]_vars

(***************************************************************************)
(* SpecLoad: one call of load_bitmap on a file holding a bitmap of up to   *)
(* MaxFile by MaxFile pixels, with a right or a wrong header, each system  *)
(* call of platform_load_file succeeding or failing.                       *)
(***************************************************************************)
InitLoad ==
  /\ InitQueue(RingLength, 0, 0)
  /\ InitTiles
  /\ InitRenderQueue
  /\ InitRaster
  /\ startup = [at |-> "started", processor_count |-> 0,
                worker_thread_count |-> 0, index |-> 0, failed |-> FALSE]
  /\ gs = [is_initialized |-> FALSE]
  /\ call = [at |-> "none"]
  /\ \E width \in 1..MaxFile, height \in 1..MaxFile,
        seed \in 0..(Len(PixelSamples) - 1),
        file_type \in {BM, 0}, bits_per_pixel \in {32, 24} :
       load = [at |-> "stat", failure |-> "none", file |-> [size |-> 0, allocated |-> FALSE],
               result |-> NoBitmap,
               disk |-> [file_type |-> file_type,
                         bits_per_pixel |-> bits_per_pixel,
                         width |-> width, height |-> height,
                         pixels |-> [i \in 1..(width * height) |->
                                       PixelSamples[((seed + i) % Len(PixelSamples)) + 1]]]]

NextLoad ==
  LoadFileStat \/ LoadFileOpen \/ LoadFileAllocate \/ LoadBitmapFile \/ LoadBitmapNull

SpecLoad == InitLoad /\ [][NextLoad]_vars

(***************************************************************************)
(* SpecBitmapSizes: one call of immediate_bitmap of a source 3 to          *)
(* MaxSource pixels wide and 3 or MaxSource pixels high at every render    *)
(* size from 2 to MaxRender in each dimension, at every half-pixel         *)
(* position across the destination and at two heights.                     *)
(***************************************************************************)
InitBitmapSizes ==
  /\ InitQueue(RingLength, 0, 0)
  /\ InitTiles
  /\ InitRenderQueue
  /\ InitPlatform
  /\ gs = [is_initialized |-> FALSE]
  /\ call = [at |-> "none"]
  /\ destination = [width |-> MaxWidth, height |-> MaxHeight,
                    memory |-> BitmapMemory(MaxWidth, MaxHeight, 0, 1)]
  /\ \E width \in 3..MaxSource, height \in {3, MaxSource} :
       source = [width |-> width, height |-> height,
                 memory |-> BitmapMemory(width, height, 1, 1)]
  /\ \E posx \in Float(-2)..Float(MaxWidth - 1),
        posy \in {Float(-1) - 1, 1},
        render_width \in 2..MaxRender, render_height \in 2..MaxRender :
       raster = [op |-> "bitmap", at |-> "bounds",
                 posx |-> posx, posy |-> posy,
                 render_width |-> render_width,
                 render_height |-> render_height,
                 bounds |-> NoRect, destinationx |-> 0, destinationy |-> 0,
                 sample |-> NoSample, count |-> 0,
                 before |-> destination.memory]

SpecBitmapSizes == InitBitmapSizes /\ [][NextBitmap]_vars

(***************************************************************************)
(* SpecBitmapColors: immediate_bitmap of a 3 by 3 source, one texel inside *)
(* its margin, drawn 2 by 2 on a 2 by 2 destination of one colour: every   *)
(* pairing of the channel values of ChannelSamples in the texel's alpha    *)
(* and red and the destination's alpha and red (green follows the alpha,   *)
(* blue is 0 in the texel and 255 in the destination).                     *)
(***************************************************************************)
InitBitmapColors ==
  /\ InitQueue(RingLength, 0, 0)
  /\ InitTiles
  /\ InitRenderQueue
  /\ InitPlatform
  /\ gs = [is_initialized |-> FALSE]
  /\ call = [at |-> "none"]
  /\ LET ChannelSamples == {0, 1, 127, 128, 254, 255}
     IN /\ \E a \in ChannelSamples, r \in ChannelSamples :
             destination = [width |-> 2, height |-> 2,
                            memory |-> [i \in 0..3 |-> Pixel(a, r, a, 255)]]
        /\ \E a \in ChannelSamples, r \in ChannelSamples :
             source = [width |-> 3, height |-> 3,
                       memory |-> [i \in 0..8 |-> IF i = 4 THEN Pixel(a, r, a, 0)
                                                           ELSE Pixel(0, 0, 0, 0)]]
  /\ raster = [op |-> "bitmap", at |-> "bounds",
               posx |-> 0, posy |-> 0,
               render_width |-> 2, render_height |-> 2,
               bounds |-> NoRect, destinationx |-> 0, destinationy |-> 0,
               sample |-> NoSample, count |-> 0,
               before |-> destination.memory]

SpecBitmapColors == InitBitmapColors /\ [][NextBitmap]_vars

(***************************************************************************)
(* SpecLanes: one operation of the four-lane interface on one lane, on     *)
(* both backends: the conversion of every channel value to a float lane,   *)
(* of five float values to an integer lane, and u32_4x_or of every byte    *)
(* with 0xF0.                                                              *)
(***************************************************************************)
InitLanes ==
  /\ InitQueue(RingLength, 0, 0)
  /\ InitTiles
  /\ InitRenderQueue
  /\ InitPlatform
  /\ gs = [is_initialized |-> FALSE]
  /\ call = [at |-> "none"]
  /\ destination = NoBitmap
  /\ source = NoBitmap
  /\ \E name \in {"u32_4x_convert_f32_4x", "f32_4x_convert_u32_4x", "u32_4x_or"} :
       \E operand \in IF name = "u32_4x_convert_f32_4x"
                        THEN {Lane("f32", 0, 1), Lane("f32", 1, 2), Lane("f32", 3, 2),
                              Lane("f32", 5, 2), Lane("f32", 255, 1)}
                        ELSE {Lane("u32", value, 1) : value \in 0..255} :
         raster = [op |-> "lane", name |-> name, operand |-> operand,
                   result |-> [backend \in {"SSE", "NEON"} |-> NoLane]]

NextLanes == \E backend \in {"SSE", "NEON"} : ConvertLane(backend)

SpecLanes == InitLanes /\ [][NextLanes]_vars

(***************************************************************************)
(* SpecGame: move_player and pop_undo called in any order on one level.    *)
(* The level files fill a grid of a few tiles with every arrangement of    *)
(* tiles that holds one player; one file is a lone player in the grid of   *)
(* the build.                                                              *)
(***************************************************************************)
\* game_update, lines 1488-1572: the game state once it is initialized, the
\* levels loaded by store_level from their files.
game_state(files, tile_count_x, tile_count_y) ==
  [is_initialized |-> TRUE,
   tile_count_x |-> tile_count_x,
   tile_count_y |-> tile_count_y,
   menu_state |-> "TITLE",
   level_index |-> 0,
   level_count |-> Len(files),
   levels |-> [index \in 0..(Len(files) - 1) |->
                 load_level(files[index + 1], tile_count_x, tile_count_y)],
   undo_index |-> 0,
   undo_count |-> 0,
   undos |-> <<>>,
   player_movement |-> 0,
   level_transition |-> 0,
   movement |-> NoCall.result,
   save |-> <<>>]

InitGame ==
  /\ InitQueue(RingLength, 0, 0)
  /\ InitTiles
  /\ InitRenderQueue
  /\ InitPlatform
  /\ InitRaster
  /\ \/ /\ LET \* The files of width by height tile characters with one
               \* player among them.
               LevelFiles(width, height) ==
                 {rows \in [1..height ->
                              [1..width -> {"@", "+", "$", "*", "#", ".", " "}]] :
                    Cardinality({cell \in (1..height) \X (1..width) :
                                   rows[cell[1]][cell[2]] \in {"@", "+"}}) = 1}
           IN \E grid \in {<<MaxGrid, 1>>, <<1, MaxGrid>>, <<2, 2>>} :
                \E rows \in LevelFiles(grid[1], grid[2]) :
                  gs = game_state(<<rows>>, grid[1], grid[2])
        /\ call = NoCall
     \* In the grid of the build two calls of move_player are made.
     \/ /\ gs = game_state(<< <<<<"@">>>> >>, SCREEN_TILE_COUNT_X, SCREEN_TILE_COUNT_Y)
        /\ call = [NoCall EXCEPT !.calls = MaxCalls - 2]

NextGame ==
  \/ \E direction \in {"UP", "DOWN", "LEFT", "RIGHT"},
        movement \in {"WALK", "DASH", "CHARGE"} :
       MovePlayerCall(direction, movement)
  \/ MovePlayerScan
  \/ MovePlayerLoop
  \/ MovePlayerReturn
  \/ PopUndoCall

SpecGame == InitGame /\ [][NextGame]_vars

\* SpecUndo: push_undo and pop_undo are called in any order on a history
\* that holds nothing, or that earlier pushes have filled to the length of
\* undos or near it.  call.pushed lists the states pushed and not yet taken
\* back, the oldest first.
NextUndo ==
  \/ /\ call.calls < MaxUndoCalls
     /\ gs' = push_undo([gs EXCEPT !.levels[gs.level_index].push_count = @ + 1])
     /\ call' = [call EXCEPT !.op = "push_undo",
                             !.calls = @ + 1,
                             !.before = tile_map_state(gs),
                             !.pushed = Append(@, tile_map_state(gs'))]
     /\ UNCHANGED <<queue_vars, thread_vars, frame_vars, history_vars, tile_vars,
                    raster_vars, render_queue_vars, platform_vars>>
  \/ /\ call.calls < MaxUndoCalls
     /\ gs' = pop_undo(gs)
     /\ call' = [call EXCEPT !.op = "pop_undo",
                             !.calls = @ + 1,
                             !.before = tile_map_state(gs),
                             !.pushed = IF gs.undo_count > 0
                                          THEN SubSeq(@, 1, Len(@) - 1)
                                          ELSE @]
     /\ UNCHANGED <<queue_vars, thread_vars, frame_vars, history_vars, tile_vars,
                    raster_vars, render_queue_vars, platform_vars>>

InitUndo ==
  /\ InitQueue(RingLength, 0, 0)
  /\ InitTiles
  /\ InitRenderQueue
  /\ InitPlatform
  /\ InitRaster
  /\ \E count \in {0} \union ((ARRAY_LENGTH_undos - 2)..(ARRAY_LENGTH_undos + 1)) :
       LET loaded == game_state(<< <<<<"@">>>> >>, 1, 1)
       IN /\ gs = push_undos(loaded, count)
          /\ call = [at |-> "idle", op |-> "none", calls |-> 0,
                     before |-> tile_map_state(loaded),
                     pushed |-> [push \in 1..count |->
                                   [tile_map_state(loaded) EXCEPT !.push_count = push]]]

SpecUndo == InitUndo /\ [][NextUndo]_vars

\* SpecFrames: the frames of game_update on two levels of one row, "@$."
\* and "+$ ", with no file sokoban.save at the start.
InitFrames ==
  /\ InitQueue(RingLength, 0, 0)
  /\ InitTiles
  /\ InitRenderQueue
  /\ InitPlatform
  /\ InitRaster
  /\ LET files == << << <<"@", "$", ".">> >>, << <<"+", "$", " ">> >> >>
     IN gs = game_state(files, Len(files[1][1]), Len(files[1]))
  /\ call = NoCall

NextFrames ==
  \/ \E pressed \in {buttons \in SUBSET {"confirm", "pause", "cancel", "move_up",
                                         "move_down", "move_left", "move_right",
                                         "undo", "reload", "next", "previous",
                                         "save", "load"} :
                       Cardinality(buttons) <= MaxPressed} :
     \* The buttons held count in a frame that moves the player, the time
     \* elapsed in a frame that finds a timer running.
     \E held \in IF is_something_animating(gs) \/ gs.menu_state # "NONE"
                     THEN {{}}
                     ELSE {{}, {"dash"}, {"charge"}},
           seconds \in IF is_something_animating(gs)
                        THEN {1, MaxFrameSeconds}
                        ELSE {1} :
       GameUpdate(pressed, held, seconds)
  \/ MovePlayerScan
  \/ MovePlayerLoop
  \/ MovePlayerReturn
  \/ GameUpdateInputs
  \/ GameUpdateEnd

SpecFrames == InitFrames /\ [][NextFrames]_vars

(***************************************************************************)
(* SpecTiles: one frame of render_stationary_tiles_all on the tile grid of *)
(* the build, and a thread running the enqueued tasks.                     *)
(***************************************************************************)
InitRender ==
  /\ InitQueue(RingLength, 0, 0)
  /\ InitTiles
  /\ InitRenderQueue
  /\ InitPlatform
  /\ gs = [is_initialized |-> FALSE]
  /\ call = [at |-> "none"]
  /\ InitRaster

NextTiles ==
  \/ BuildRenderTile
  \/ \E k \in 1..(RENDER_TILE_COUNT_X * RENDER_TILE_COUNT_Y) : RenderBegin(k)
  \/ RenderTile
  \/ RenderEnd

SpecTiles == InitRender /\ [][NextTiles]_vars

(***************************************************************************)
(* Properties.                                                             *)
(***************************************************************************)
\* platform_complete_queue has returned to render_stationary_tiles_all.
BarrierReturned ==
  /\ pc[Main] \in {"draw_sprites", "draw_text", "draw_screen", "frame_start"}
  /\ frame > 0

\* The entries of the frame in progress.
Batch == {Entry(frame, k) : k \in 0..(batch - 1)}

\* C1: over every interleaving and any number of frames, wrap-around of the
\* ring included, no enqueued entry has its callback entered more than once.
C1_AtMostOnce == rerun = {}

\* C2: when platform_complete_queue returns, every entry of the batch has
\* been claimed, its callback has returned, and no thread is still inside a
\* callback of that batch.
C2_BarrierComplete ==
  [][(pc[Main] = "reset_count" /\ pc'[Main] = "draw_sprites") =>
       /\ Batch \subseteq claimed'
       /\ Batch \subseteq finished'
       /\ \A t \in Threads :
            pc'[t] = "dequeue_callback" => local_entry'[t] \notin Batch]_vars

\* C3 (as stated): after platform_complete_queue returns for a batch of N
\* entries, completion_count and completion_target both equal N.
C3_CountersEqualBatch ==
  BarrierReturned => completion_count = batch /\ completion_target = batch

\* C3 (amended): platform_complete_queue leaves its loop with
\* completion_target equal to N and completion_count at least N, and it
\* returns having written 0 to both fields.
C3_CountersResetOnReturn ==
  [][/\ (pc[Main] = "complete_test" /\ pc'[Main] = "reset_target")
          => (completion_target = batch /\ completion_count >= batch)
     /\ (pc[Main] = "reset_count" /\ pc'[Main] = "draw_sprites")
          => (completion_target' = 0 /\ completion_count' = 0)]_vars

C3_Witness ==
  /\ BarrierReturned
  /\ Batch \subseteq finished
  /\ completion_target = 0
  /\ completion_count = 0

\* C4: with no background thread, platform_complete_queue returns, and when
\* it has, each callback of the batch has run exactly once, on the producer.
C4_SoloBarrier ==
  /\ pc[Main] \in {"complete_test", "dequeue_read", "dequeue_check",
                   "dequeue_cas", "dequeue_load", "dequeue_callback",
                   "dequeue_count", "reset_target", "reset_count"}
       ~> BarrierReturned
  /\ [](BarrierReturned =>
          /\ Batch \subseteq finished
          /\ Batch \cap rerun = {}
          /\ ran_on_worker = {})

C4_Witness ==
  /\ BarrierReturned
  /\ background_threads = 0
  /\ entries_length = ARRAY_LENGTH_entries
  /\ batch = 64
  /\ Cardinality(Batch \cap finished) = 64

\* C5: with background threads, callbacks that return and fair scheduling,
\* a producer inside platform_complete_queue eventually returns from it.
C5_BarrierReturns ==
  pc[Main] \in {"complete_test", "dequeue_read", "dequeue_check",
                "dequeue_cas", "dequeue_load", "dequeue_callback",
                "dequeue_count", "reset_target", "reset_count"}
    ~> BarrierReturned

C5_Witness ==
  /\ BarrierReturned
  /\ background_threads >= 1
  /\ Batch \cap ran_on_worker # {}

\* C6: once render_stationary_tiles_all has built its tasks, every tile cell
\* of the grid lies in the tile range of exactly one task.
C6_Partition ==
  Len(render_tiles) = RENDER_TILE_COUNT_X * RENDER_TILE_COUNT_Y =>
    \A tilex \in 0..(SCREEN_TILE_COUNT_X - 1), tiley \in 0..(SCREEN_TILE_COUNT_Y - 1) :
      Cardinality({k \in 1..Len(render_tiles) :
                     /\ render_tiles[k].min_tilex <= tilex
                     /\ tilex <= render_tiles[k].max_tilex
                     /\ render_tiles[k].min_tiley <= tiley
                     /\ tiley <= render_tiles[k].max_tiley}) = 1

C6_Witness ==
  /\ Len(render_tiles) = RENDER_TILE_COUNT_X * RENDER_TILE_COUNT_Y
  /\ loop_y = RENDER_TILE_COUNT_Y

\* C7: the pixels a task's callback writes for a tile are written for no
\* tile of any other task of the frame.
C7_DisjointPixels ==
  renderer.task # 0 =>
    \A k \in 1..Len(render_tiles) :
      k # renderer.task =>
        \A tilex \in render_tiles[k].min_tilex..render_tiles[k].max_tilex,
           tiley \in render_tiles[k].min_tiley..render_tiles[k].max_tiley :
          ~SharePixel(renderer.wrote, TilePixels(tilex, tiley))

C7_Witness ==
  /\ renderer.task # 0
  /\ renderer.wrote # NoRect
  /\ renderer.wrote.maxx - renderer.wrote.minx = TILE_DIMENSION_PIXELS - 1
  /\ Len(render_tiles) = RENDER_TILE_COUNT_X * RENDER_TILE_COUNT_Y

\* C8: the assertion new_write_index != read_index of platform_enqueue_work
\* never fails in the per-frame protocol.
C8_AssertionHolds == pc[Main] # "assert_failed"

\* C9: entry k of a batch is claimed before entry k+1 of that batch.
C9_ClaimedInOrder ==
  \A e \in claimed : e.index > 0 => Entry(e.frame, e.index - 1) \in claimed

\* C10: while platform_complete_queue writes 0 to completion_target and
\* completion_count, no other thread is between winning a claim and adding
\* to completion_count.
C10_QuiescentReset ==
  pc[Main] \in {"reset_target", "reset_count"} =>
    \A t \in Workers :
      pc[t] \notin {"dequeue_load", "dequeue_callback", "dequeue_count"}

\* C11: platform_enqueue_work writes data and callback before it publishes
\* write_index, so every claim takes a slot that an enqueue has published and
\* no thread has taken, and every callback entered is that of a published
\* entry.
C11_RunsPublishedEntry ==
  /\ ~stale_claims
  /\ started \subseteq published

\* C12: no thread is inside a callback on a render_tile_data element of a
\* frame whose render_stationary_tiles_all has returned: a callback in
\* progress works on an entry of the frame in progress, inside its barrier.
C12_NoUseAfterReturn ==
  \A t \in Threads :
    pc[t] = "dequeue_callback" =>
      (local_entry[t].frame = frame /\ ~BarrierReturned)

\* C13: in a frame of game_update the sprites are drawn only after the
\* barrier returned, the text after the sprites, the overlay after the text,
\* and once the sprites have been drawn no tile callback is in progress.
C13_FrameOrder ==
  [][/\ pc'[Main] = "draw_sprites" => pc[Main] \in {"reset_count", "draw_sprites"}
     /\ pc'[Main] = "draw_text" => pc[Main] \in {"draw_sprites", "draw_text"}
     /\ pc'[Main] = "draw_screen" => pc[Main] \in {"draw_text", "draw_screen"}
     /\ pc'[Main] \in {"draw_text", "draw_screen"} =>
          \A t \in Threads : pc'[t] # "dequeue_callback"]_vars

\* C14: when render_stationary_tiles_all returns, the output buffer holds
\* what running the tasks one after the other on the producer leaves: every
\* render tile of the batch drawn exactly once since the clear, and no
\* callback still drawing.
C14_SequentialContent ==
  [][(pc[Main] = "reset_count" /\ pc'[Main] = "draw_sprites") =>
       /\ \A k \in 0..(batch - 1) : composited'[k] = 1
       /\ \A t \in Threads : pc'[t] # "dequeue_callback"]_vars

\* C15: with background threads, a producer that only enqueues and fair
\* scheduling, every entry whose slot has been published is eventually run
\* to the end of its callback.
C15_EveryEntryRuns ==
  \A k \in 1..MaxEnqueues :
    (Entry(k, 0) \in published) ~> (Entry(k, 0) \in finished)

\* C16: immediate_clear on a bitmap whose width is a multiple of 4 writes
\* no pixel outside the bitmap, and when it returns every pixel of the
\* bitmap holds the colour.
C16_ClearFills ==
  (raster.op = "clear" /\ destination.width % 4 = 0) =>
    /\ raster.stray = {}
    /\ Returned("clear") =>
         \A i \in DOMAIN destination.memory : destination.memory[i] = raster.color

C16_Witness ==
  /\ Returned("clear")
  /\ destination.width = 8
  /\ destination.height = MaxHeight
  /\ raster.color = PixelSamples[3]
  /\ \A i \in 0..(8 * MaxHeight - 1) : destination.memory[i] = PixelSamples[3]

\* The R, G and B bytes of a colour.
RGB(color) == <<color.r, color.g, color.b>>

\* C17: immediate_screen_bitmap with alpha_modulation 0.0 leaves every pixel
\* of the destination as it was, all four bytes.
C17_ScreenZeroIsNoOp ==
  (Returned("screen") /\ raster.alpha_modulation = 0) =>
    destination.memory = raster.before

\* C18 (as stated): with alpha_modulation 1.0, a destination pixel whose
\* alpha byte was 0 ends with the R, G and B bytes of the source pixel.
C18_TransparentTakesSource ==
  (Returned("screen") /\ raster.alpha_modulation = 1) =>
    \A i \in DOMAIN destination.memory :
      raster.before[i].a = 0 =>
        RGB(destination.memory[i]) = RGB(source.memory[i])

\* C18 (amended): with alpha_modulation 1.0, a destination pixel that was
\* 0x00000000 (alpha byte 0 and R, G and B bytes 0) ends with the R, G and B
\* bytes of the source pixel.
C18_ZeroTakesSource ==
  (Returned("screen") /\ raster.alpha_modulation = 1) =>
    \A i \in DOMAIN destination.memory :
      raster.before[i] = Pixel(0, 0, 0, 0) =>
        RGB(destination.memory[i]) = RGB(source.memory[i])

C18_Witness ==
  /\ Returned("screen")
  /\ raster.alpha_modulation = 1
  /\ \E i \in DOMAIN destination.memory :
       /\ raster.before[i] = Pixel(0, 0, 0, 0)
       /\ source.memory[i] = Pixel(128, 64, 32, 16)
       /\ RGB(destination.memory[i]) = <<64, 32, 16>>

\* C19: a blit at 1:1 scale at an integer position, wholly inside the
\* destination, reads for the destination pixel at offset (i, j) from the
\* position the source texel (1 + i, 1 + j), fails no assertion, and has
\* visited every offset of the render rectangle when it returns.
C19_TexelForTexel ==
  (/\ raster.op = "bitmap"
   /\ raster.render_width = source.width - 2
   /\ raster.render_height = source.height - 2
   /\ raster.posx % SubPixel = 0
   /\ raster.posy % SubPixel = 0
   /\ floor_s32(raster.posx) >= 0
   /\ floor_s32(raster.posy) >= 0
   /\ floor_s32(raster.posx) + raster.render_width <= destination.width
   /\ floor_s32(raster.posy) + raster.render_height <= destination.height) =>
    /\ ~aborted
    /\ raster.sample # NoSample =>
         /\ raster.sample.sourcex = 1 + (raster.sample.destinationx - floor_s32(raster.posx))
         /\ raster.sample.sourcey = 1 + (raster.sample.destinationy - floor_s32(raster.posy))
    /\ Returned("bitmap") => raster.count = raster.render_width * raster.render_height

\* C20: in a blit that starts left of or above the destination, every
\* visible pixel reads the texel its offset from the unclipped origin
\* (floor(posx), floor(posy)) selects.
C20_ClippedKeepsTexel ==
  (/\ raster.op = "bitmap"
   /\ raster.posx < 0 \/ raster.posy < 0
   /\ raster.render_width > 1
   /\ raster.render_height > 1
   /\ raster.sample # NoSample) =>
    /\ raster.sample.sourcex \in
         source_coordinate(raster.sample.destinationx - floor_s32(raster.posx),
                           raster.render_width, source.width)
    /\ raster.sample.sourcey \in
         source_coordinate(raster.sample.destinationy - floor_s32(raster.posy),
                           raster.render_height, source.height)


\* C21: immediate_rectangle writes no pixel outside the bitmap, and when it
\* returns exactly the pixels (x, y) with max(0, trunc(min.x)) <= x <=
\* min(trunc(max.x), width - 1) and max(0, trunc(min.y)) <= y <=
\* min(trunc(max.y), height - 1) hold the colour, every other pixel what it
\* held before the call.
C21_RectangleFills ==
  raster.op = "rectangle" =>
    LET columns == MAXIMUM(0, s32_cast(raster.min.x))
                     ..MINIMUM(s32_cast(raster.max.x), destination.width - 1)
        rows == MAXIMUM(0, s32_cast(raster.min.y))
                  ..MINIMUM(s32_cast(raster.max.y), destination.height - 1)
    IN /\ raster.stray = {}
       /\ Returned("rectangle") =>
            \A x \in 0..(destination.width - 1), y \in 0..(destination.height - 1) :
              destination.memory[y * destination.width + x] =
                IF x \in columns /\ y \in rows
                  THEN raster.color
                  ELSE raster.before[y * destination.width + x]

\* The 32 by 32 scenario: exactly the pixels with x and y in 4..10 are white.
C21_Witness ==
  /\ Returned("rectangle")
  /\ destination.width = 32
  /\ destination.height = 32
  /\ \A x \in 0..31, y \in 0..31 :
       destination.memory[y * 32 + x] =
         IF x \in 4..10 /\ y \in 4..10 THEN Pixel(255, 255, 255, 255)
                                       ELSE Pixel(255, 0, 0, 0)

\* C22: immediate_screen_bitmap on a destination and a source of equal
\* dimensions whose width is not a multiple of 4 stops at a failed assertion
\* before it writes a pixel: it never enters its loops, the destination
\* stays as it was and no lane is stored past the end of the buffer.
C22_ScreenAssertsWidth ==
  (/\ raster.op = "screen"
   /\ destination.width = source.width
   /\ destination.height = source.height
   /\ destination.width % 4 # 0) =>
    /\ raster.at \in {"assert", "assert_failed"}
    /\ raster.stray = {}
    /\ destination.memory = raster.before

\* C23: when the flush that follows N pushes on a layer returns, the layer's
\* entry_count is 0 and the flush has called exactly N rasterizer
\* operations for the layer, the operation of each pushed entry, in the
\* order the entries were pushed.
C23_FlushRunsEveryPush ==
  flush.at = "done" =>
    \A layer \in RenderLayers :
      /\ Len(render_queue[layer]) = 0
      /\ Len(invoked[layer]) = push_calls[layer]
      /\ invoked[layer] = [i \in 1..Len(pushed[layer]) |->
                           FlushDispatch(pushed[layer][i])]

C23_Witness ==
  /\ flush.at = "done"
  /\ push_calls[RENDER_LAYER_BACKGROUND] = 3
  /\ Len(render_queue[RENDER_LAYER_BACKGROUND]) = 0
  /\ invoked[RENDER_LAYER_BACKGROUND] =
       <<[operation |-> "clear", argument |-> 1],
         [operation |-> "bitmap", argument |-> 2],
         [operation |-> "screen", argument |-> 4]>>
  /\ invoked[RENDER_LAYER_FOREGROUND] = <<[operation |-> "rectangle", argument |-> 3]>>

\* C24 (as stated): when every thread creation succeeded, main() has
\* created min(logical processor count, 8) background threads.
C24_ThreadPerProcessor ==
  (startup.at = "created" /\ ~startup.failed) =>
    background_threads = MINIMUM(startup.processor_count, LINUX_WORKER_THREAD_COUNT)

\* C24 (amended): when every thread creation succeeded, main() has created
\* min(logical processor count, 8) - 1 background threads.
C24_ThreadPerProcessorButOne ==
  (startup.at = "created" /\ ~startup.failed) =>
    background_threads = MINIMUM(startup.processor_count, LINUX_WORKER_THREAD_COUNT) - 1

C24_Witness ==
  /\ startup.at = "created"
  /\ ~startup.failed
  /\ startup.processor_count = MaxProcessors
  /\ background_threads = LINUX_WORKER_THREAD_COUNT - 1

\* C25: after a stat, an open or an allocation that failed,
\* platform_load_file returns size 0 and no memory, and load_bitmap then
\* returns, without failing an assertion, a bitmap that is not empty and
\* whose every pixel is 0xFFFF00FF.
C25_FailedLoadGivesPlaceholder ==
  (load.at # "none" /\ load.failure # "none") =>
    /\ ~aborted
    /\ load.at \in {"returned", "loaded"}
    /\ load.file.size = 0
    /\ ~load.file.allocated
    /\ load.at = "loaded" =>
         /\ load.result.width > 0
         /\ load.result.height > 0
         /\ \A i \in 0..(load.result.width * load.result.height - 1) :
              load.result.memory[i] = Pixel(255, 255, 0, 255)

C25_Witness ==
  /\ load.at = "loaded"
  /\ load.failure = "allocate"
  /\ load.result.width = TILE_DIMENSION_PIXELS
  /\ load.result.memory[TILE_DIMENSION_PIXELS * TILE_DIMENSION_PIXELS - 1] =
       Pixel(255, 255, 0, 255)

\* C26: in a blit of a source at least 3 by 3 at a render size of at least
\* 2 in each dimension, no assertion fails and every texel read lies inside
\* the margin: 1 <= sourcex <= source.width - 2 and 1 <= sourcey <=
\* source.height - 2.
C26_SampleInsideMargin ==
  (/\ raster.op = "bitmap"
   /\ source.width >= 3
   /\ source.height >= 3
   /\ raster.render_width >= 2
   /\ raster.render_height >= 2) =>
    /\ ~aborted
    /\ raster.sample # NoSample =>
         /\ raster.sample.sourcex \in 1..(source.width - 2)
         /\ raster.sample.sourcey \in 1..(source.height - 2)

\* A pixel past the unclipped render area has read the last texel inside
\* the margin of a 6 by 6 source.
C26_Witness ==
  /\ raster.op = "bitmap"
  /\ source.width = 6
  /\ raster.render_width = 7
  /\ raster.posx = 1
  /\ raster.sample # NoSample
  /\ raster.sample.destinationx = 7
  /\ raster.sample.sourcex = 4

\* C27: the alpha value immediate_screen_bitmap computes for a pixel lies in
\* 0..255, and the alpha byte the pixel holds when the call returns is that
\* value.
C27_ScreenAlphaFits ==
  Returned("screen") =>
    \A i \in DOMAIN destination.memory :
      LET a == screen_alpha(raster.before[i], source.memory[i], raster.alpha_modulation)
      IN /\ a \in 0..255
         /\ destination.memory[i].a = a

\* The texel and the destination pixel of the last pass of the blit's loop.
SampleTexel ==
  source.memory[raster.sample.sourcey * source.width + raster.sample.sourcex]

SamplePixel == raster.sample.destinationy * destination.width + raster.sample.destinationx

\* C28: for a premultiplied texel (R, G and B bytes at most its alpha byte)
\* and any destination pixel, each of the four channel values the blit
\* computes lies in 0..255, and the pixel written holds exactly these four
\* values in its bytes: nothing is carried into a neighbouring byte.
C28_BlitChannelsFit ==
  (/\ raster.op = "bitmap"
   /\ raster.sample # NoSample
   /\ SampleTexel.r <= SampleTexel.a
   /\ SampleTexel.g <= SampleTexel.a
   /\ SampleTexel.b <= SampleTexel.a) =>
    LET c == bitmap_channels(raster.before[SamplePixel], SampleTexel)
    IN /\ c.r \in 0..255 /\ c.g \in 0..255 /\ c.b \in 0..255 /\ c.a \in 0..255
       /\ destination.memory[SamplePixel] = Pixel(c.a, c.r, c.g, c.b)

\* A half-transparent white texel over an opaque white pixel: every channel
\* reaches 255 and no further.
C28_Witness ==
  /\ raster.op = "bitmap"
  /\ raster.sample # NoSample
  /\ SampleTexel = Pixel(128, 128, 128, 0)
  /\ raster.before[SamplePixel] = Pixel(255, 255, 255, 255)
  /\ destination.memory[SamplePixel] = Pixel(255, 255, 255, 127)

\* C29: an operation of the four-lane interface gives, for the same lane, a
\* lane of the same element type and the same value on the NEON backend as
\* on the SSE backend.
C29_BackendsAgree ==
  (/\ raster.op = "lane"
   /\ raster.result["SSE"] # NoLane
   /\ raster.result["NEON"] # NoLane) =>
    raster.result["NEON"] = raster.result["SSE"]

\* C30: read_index never passes write_index: every compare-and-swap that
\* moves read_index finds the ring non-empty and takes an entry that was
\* published and not taken before.
C30_ReadNeverPassesWrite ==
  [][read_index' # read_index =>
       /\ read_index # write_index
       /\ entries[read_index] \in published \ claimed]_vars


\* C31: move_player with PLAYER_MOVEMENT_DASH never pushes: while the call
\* runs and after it has returned, the BOX and BOX_ON_GOAL cells and
\* push_count are those the call found.
C31_DashNeverPushes ==
  (call.op = "move_player" /\ call.movement = "DASH" /\ call.at # "stray") =>
    LET level == gs.levels[gs.level_index]
        boxes(tiles) == {cell \in DOMAIN tiles : tiles[cell] \in {"BOX", "BOX_ON_GOAL"}}
    IN /\ boxes(level.map.tiles) = boxes(call.before.map.tiles)
       /\ level.push_count = call.before.push_count

\* A dash has run into a box with a free tile behind it, and returned.
C31_Witness ==
  /\ call.op = "move_player" /\ call.movement = "DASH" /\ call.at = "idle"
  /\ LET level == gs.levels[gs.level_index]
         p == direction_switch(call.direction, level.map.player_tilex,
                               level.map.player_tiley)
         b == direction_switch(call.direction, p.x, p.y)
     IN /\ <<b.y, b.x>> \in DOMAIN level.map.tiles
        /\ level.map.tiles[<<p.y, p.x>>] \in {"BOX", "BOX_ON_GOAL"}
        /\ level.map.tiles[<<b.y, b.x>>] \in {"FLOOR", "GOAL"}

\* C32: after a move_player call that advanced the player k >= 1 tiles, k
\* pop_undo calls in a row restore the tile map, player_tilex, player_tiley
\* and move_count the call found.
C32_UndoInvertsMove ==
  (/\ call.op = "pop_undo"
   /\ call.advanced >= 1
   /\ call.pops = call.advanced) =>
    LET level == gs.levels[gs.level_index]
    IN /\ level.map = call.before.map
       /\ level.move_count = call.before.move_count

\* A second move, of two tiles, has been undone by two pops.
C32_Witness ==
  /\ call.op = "pop_undo"
  /\ call.calls = 2
  /\ call.advanced >= 2
  /\ call.pops = call.advanced

\* C33: after a walk that pushes a box and one pop_undo, push_count is what
\* it was before the walk.
C33_UndoRestoresPushCount ==
  (/\ call.op = "pop_undo"
   /\ call.movement = "WALK"
   /\ call.result.box_tile_delta = 1
   /\ call.pops = 1) =>
    gs.levels[gs.level_index].push_count = call.before.push_count

\* C34: move_player and pop_undo keep the number of boxes, the number of
\* goal cells and the WALL cells of the level as it was loaded.
C34_TileCountsKept ==
  (gs.is_initialized /\ call.at # "stray") =>
    LET level == gs.levels[gs.level_index]
        loaded == load_level(level.file_path, gs.tile_count_x, gs.tile_count_y)
        cells(tiles, types) == {cell \in DOMAIN tiles : tiles[cell] \in types}
        boxes == {"BOX", "BOX_ON_GOAL"}
        goals == {"GOAL", "BOX_ON_GOAL", "PLAYER_ON_GOAL"}
    IN /\ Cardinality(cells(level.map.tiles, boxes))
            = Cardinality(cells(loaded.map.tiles, boxes))
       /\ Cardinality(cells(level.map.tiles, goals))
            = Cardinality(cells(loaded.map.tiles, goals))
       /\ cells(level.map.tiles, {"WALL"}) = cells(loaded.map.tiles, {"WALL"})

\* A box has been pushed off a goal by a player that stood on a goal, and an
\* undo has been taken since.
C34_Witness ==
  /\ gs.is_initialized
  /\ call.op = "pop_undo" /\ call.pops = 1 /\ call.calls = 2
  /\ call.result.box_tile_delta = 1
  /\ LET tiles == call.before.map.tiles
         player == call.result.initial_player
         box == call.result.initial_box
     IN /\ tiles[<<player.y, player.x>>] = "PLAYER_ON_GOAL"
        /\ tiles[<<box.y, box.x>>] = "BOX_ON_GOAL"

\* C35: on a level loaded with one player tile, the map holds one PLAYER or
\* PLAYER_ON_GOAL cell, the cell at (player_tilex, player_tiley), and the
\* assertion at the top of move_player's loop holds.
C35_OnePlayer ==
  gs.is_initialized =>
    LET level == gs.levels[gs.level_index]
    IN /\ {cell \in DOMAIN level.map.tiles :
             level.map.tiles[cell] \in {"PLAYER", "PLAYER_ON_GOAL"}}
            = {<<level.map.player_tiley, level.map.player_tilex>>}
       /\ call.at # "assert_failed"

\* The player has moved twice and an undo has put it back once.
C35_Witness ==
  /\ gs.is_initialized
  /\ call.op = "pop_undo" /\ call.pops = 1 /\ call.calls = 2
  /\ gs.undo_count >= 1
  /\ gs.levels[gs.level_index].map.player_tilex # call.before.map.player_tilex

\* C37: move_player ends: its two loops run a number of times the grid
\* bounds, a dash or a charge advances the player at most the dimension of
\* the grid less one, and no tile outside the grid is read or written, a
\* coordinate that wrapped below 0 being turned down by the bounds test.
C37_MoveEndsInGrid ==
  call.op = "move_player" =>
    LET dimension == IF call.direction \in {"LEFT", "RIGHT"}
                       THEN gs.tile_count_x ELSE gs.tile_count_y
    IN /\ ~call.stray
       /\ call.advanced <= dimension - 1
       /\ call.iterations <= 2 * dimension - 1

\* In the grid of the build a dash to the left has crossed 29 tiles and has
\* returned after it looked at the tile at x = 0xFFFFFFFF.
C37_Witness ==
  /\ call.op = "move_player" /\ call.movement = "DASH" /\ call.at = "idle"
  /\ gs.tile_count_x = SCREEN_TILE_COUNT_X
  /\ call.advanced = SCREEN_TILE_COUNT_X - 1
  /\ call.potential_box.x = 0 - 1

\* C38: after any calls of push_undo and pop_undo, undo_index is in 0..255
\* and undo_count in 0..256, the next undo_count calls of pop_undo give back
\* the undo_count states pushed last, the last one first, also once more
\* than 256 pushes have gone round undos, and a pop_undo with undo_count 0
\* changes nothing.
C38_UndoRing ==
  /\ gs.undo_index \in 0..(ARRAY_LENGTH_undos - 1)
  /\ gs.undo_count \in 0..ARRAY_LENGTH_undos
  /\ gs.undo_count <= Len(call.pushed)
  /\ pop_undos([gs |-> gs, popped |-> <<>>], gs.undo_count).popped
       = [pop \in 1..gs.undo_count |-> call.pushed[Len(call.pushed) + 1 - pop]]
  /\ gs.undo_count = 0 => pop_undo(gs) = gs

\* More than 256 pushes have gone round undos, and a pop_undo has followed
\* the last of them.
C38_Witness ==
  /\ call.op = "pop_undo"
  /\ call.before.push_count > ARRAY_LENGTH_undos
  /\ gs.undo_count = ARRAY_LENGTH_undos - 1
  /\ gs.undo_index = 0

\* C36: the undo history belongs to the current level: a step that changes
\* level_index (next, previous, the advance on completion, the selection in
\* the pause menu) leaves undo_count at 0.
C36_LevelChangeClearsUndo ==
  [][gs'.level_index # gs.level_index => gs'.undo_count = 0]_vars

\* C39: game_update calls move_player, pop_undo, reload_level, next_level
\* for the next button and previous_level only in a frame that began with
\* menu_state MENU_STATE_NONE and no animation timer running, and in which
\* pause was not pressed; and each call answers a button pressed in that
\* same frame, so that an input met by a menu or an animation is dropped.
C39_CallsOnlyInPlay ==
  /\ call.called # {} =>
       /\ call.start.menu_state = "NONE"
       /\ "pause" \notin call.input
       /\ call.start.player_movement <= 0
       /\ call.start.level_transition <= 0
  /\ "move_player" \in call.called =>
       call.input \cap {"move_up", "move_down", "move_left", "move_right"} # {}
  /\ "pop_undo" \in call.called => "undo" \in call.input
  /\ "reload_level" \in call.called => "reload" \in call.input
  /\ "next_level" \in call.called => "next" \in call.input
  /\ "previous_level" \in call.called => "previous" \in call.input

\* A frame has left a direction or an undo unserved, and a later frame of
\* play, in which none of them is pressed, has called nothing: the player
\* has not moved yet.
C39_Witness ==
  /\ call.dropped
  /\ call.at = "complete"
  /\ call.start.menu_state = "NONE"
  /\ call.start.player_movement = 0
  /\ call.start.level_transition = 0
  /\ call.input \cap {"move_up", "move_down", "move_left", "move_right", "undo"} = {}
  /\ call.called = {}
  /\ gs.levels[gs.level_index].move_count = 0

====
